---------------------------- MODULE Spec2Model ----------------------------
(***************************************************************************)
(* CDR analyzer: the ingestion and ranking core of server/routes.ts and    *)
(* the in-memory store of server/storage.ts.                               *)
(*                                                                         *)
(* Conventions of the model                                                *)
(*  - a JavaScript string is a sequence of one-character strings;          *)
(*  - a JavaScript value is a record [t, s, n]: t is its kind ("undef",    *)
(*    "null", "str", "num", "nan"), s its characters, n its number;        *)
(*  - instants are whole seconds since the Unix epoch, and the server's    *)
(*    local time zone is UTC;                                              *)
(*  - coordinates are held in hundredths of a degree.                      *)
(***************************************************************************)
EXTENDS Integers, Sequences, FiniteSets

(***************************************************************************)
(* Bounds of the model.                                                    *)
(***************************************************************************)
MaxRows == 3
MaxUploads == 2
RandDen == 2

(***************************************************************************)
(* JavaScript values.                                                      *)
(***************************************************************************)
Undef == [t |-> "undef", s |-> <<>>, n |-> 0]
Null == [t |-> "null", s |-> <<>>, n |-> 0]
NaN == [t |-> "nan", s |-> <<>>, n |-> 0]
Str(s) == [t |-> "str", s |-> s, n |-> 0]
Num(n) == [t |-> "num", s |-> <<>>, n |-> n]

IsNaN(v) == v.t = "nan"

\* v is falsy: undefined, null, '', 0 and NaN.
Falsy(v) ==
    \/ v.t \in {"undef", "null", "nan"}
    \/ v.t = "str" /\ v.s = <<>>
    \/ v.t = "num" /\ v.n = 0

\* a || b
OrElse(a, b) == IF Falsy(a) THEN b ELSE a

Digits == <<"0", "1", "2", "3", "4", "5", "6", "7", "8", "9">>
IsDigit(c) == \E i \in 1..10 : Digits[i] = c
DigitVal(c) == (CHOOSE i \in 1..10 : Digits[i] = c) - 1

RECURSIVE NatToString(_)
NatToString(n) ==
    IF n < 10 THEN <<Digits[n + 1]>>
    ELSE NatToString(n \div 10) \o <<Digits[(n % 10) + 1]>>

\* String(v) for the values a sheet cell or a default can hold.
JsString(v) ==
    CASE v.t = "str" -> v.s
      [] v.t = "num" -> IF v.n < 0 THEN <<"-">> \o NatToString(-v.n)
                        ELSE NatToString(v.n)
      [] v.t = "nan" -> <<"N", "a", "N">>
      [] v.t = "null" -> <<"n", "u", "l", "l">>
      [] OTHER -> <<"u", "n", "d", "e", "f", "i", "n", "e", "d">>

Upper == <<"A", "B", "C", "D", "E", "F", "G", "H", "I", "J", "K", "L", "M",
           "N", "O", "P", "Q", "R", "S", "T", "U", "V", "W", "X", "Y", "Z">>
Lower == <<"a", "b", "c", "d", "e", "f", "g", "h", "i", "j", "k", "l", "m",
           "n", "o", "p", "q", "r", "s", "t", "u", "v", "w", "x", "y", "z">>

LowerChar(c) ==
    IF \E i \in 1..26 : Upper[i] = c
    THEN Lower[CHOOSE i \in 1..26 : Upper[i] = c]
    ELSE c

\* s.toLowerCase()
ToLowerCase(s) == [i \in 1..Len(s) |-> LowerChar(s[i])]

IsSpace(c) == c \in {" ", "\t"}

RECURSIVE TrimStart(_)
TrimStart(s) ==
    IF s # <<>> /\ IsSpace(Head(s)) THEN TrimStart(Tail(s)) ELSE s

RECURSIVE TrimEnd(_)
TrimEnd(s) ==
    IF s # <<>> /\ IsSpace(s[Len(s)])
    THEN TrimEnd(SubSeq(s, 1, Len(s) - 1))
    ELSE s

\* s.trim()
Trim(s) == TrimEnd(TrimStart(s))

\* s.includes(sub)
Includes(s, sub) ==
    \E i \in 1..(Len(s) - Len(sub) + 1) : SubSeq(s, i, i + Len(sub) - 1) = sub

\* s.split('|')
RECURSIVE SplitPipe(_)
SplitPipe(s) ==
    IF \E i \in 1..Len(s) : s[i] = "|"
    THEN LET i == CHOOSE k \in 1..Len(s) :
                      s[k] = "|" /\ \A j \in 1..(k - 1) : s[j] # "|"
         IN  <<SubSeq(s, 1, i - 1)>> \o SplitPipe(SubSeq(s, i + 1, Len(s)))
    ELSE <<s>>

\* The length of the longest prefix of s made of decimal digits.
RECURSIVE DigitRun(_)
DigitRun(s) ==
    IF s # <<>> /\ IsDigit(Head(s)) THEN 1 + DigitRun(Tail(s)) ELSE 0

\* The value of a sequence of decimal digits.
RECURSIVE DigitsValue(_)
DigitsValue(s) ==
    IF s = <<>> THEN 0
    ELSE 10 * DigitsValue(SubSeq(s, 1, Len(s) - 1)) + DigitVal(s[Len(s)])

\* The sign and the rest of a numeric text.
Sign(s) == IF s # <<>> /\ Head(s) = "-" THEN -1 ELSE 1
Unsigned(s) == IF s # <<>> /\ Head(s) \in {"-", "+"} THEN Tail(s) ELSE s

ParseIntText(s) ==
    IF DigitRun(Unsigned(s)) = 0 THEN NaN
    ELSE Num(Sign(s) * DigitsValue(SubSeq(Unsigned(s), 1, DigitRun(Unsigned(s)))))

\* parseInt(v, 10): String(v), leading white space skipped, an optional
\* sign, then the longest run of digits; NaN when there is no digit.
ParseInt(v) == ParseIntText(TrimStart(JsString(v)))

\* The digits after the decimal point that follows the integer digits.
FractionOf(body) ==
    IF DigitRun(body) < Len(body) /\ body[DigitRun(body) + 1] = "."
    THEN SubSeq(body, DigitRun(body) + 2, Len(body))
    ELSE <<>>

\* The value, in hundredths, of integer digits and fraction digits.
Hundredths(int, frac) ==
    100 * DigitsValue(int)
        + 10 * (IF DigitRun(frac) >= 1 THEN DigitVal(frac[1]) ELSE 0)
        + (IF DigitRun(frac) >= 2 THEN DigitVal(frac[2]) ELSE 0)

ParseFloatParts(sign, body, frac) ==
    IF DigitRun(body) = 0 /\ DigitRun(frac) = 0 THEN NaN
    ELSE Num(sign * Hundredths(SubSeq(body, 1, DigitRun(body)), frac))

\* parseFloat(v), in hundredths: String(v), leading white space skipped, an
\* optional sign, digits, an optional fraction; NaN when there is no digit.
\* Fraction digits after the second are dropped, exponents are not read.
ParseFloatText(s) == ParseFloatParts(Sign(s), Unsigned(s), FractionOf(Unsigned(s)))
ParseFloat(v) == ParseFloatText(TrimStart(JsString(v)))

(***************************************************************************)
(* Dates.  An instant is Num(seconds since the epoch) or NaN (Invalid      *)
(* Date).                                                                  *)
(***************************************************************************)
SecondsPerDay == 24 * 60 * 60

\* The largest day count a Date can hold (8.64e15 ms).
MaxDateDays == 10000 * 10000

\* Days since 1970-01-01 of the civil date y-m-d.
DaysFromCivil(y, m, d) ==
    LET yy == IF m <= 2 THEN y - 1 ELSE y
        era == yy \div 400
        yoe == yy - era * 400
        mp == IF m > 2 THEN m - 3 ELSE m + 9
        doy == (153 * mp + 2) \div 5 + d - 1
        doe == yoe * 365 + yoe \div 4 - yoe \div 100 + doy
    IN  era * 146097 + doe - 719468

\* The civil date of a day count since 1970-01-01.
CivilFromDays(z) ==
    LET zz == z + 719468
        era == zz \div 146097
        doe == zz - era * 146097
        yoe == (doe - doe \div 1460 + doe \div 36524 - doe \div 146096) \div 365
        doy == doe - (365 * yoe + yoe \div 4 - yoe \div 100)
        mp == (5 * doy + 2) \div 153
        d == doy - (153 * mp + 2) \div 5 + 1
        m == IF mp < 10 THEN mp + 3 ELSE mp - 9
        y == yoe + era * 400 + (IF m <= 2 THEN 1 ELSE 0)
    IN  [y |-> y, m |-> m, d |-> d]

\* date.getFullYear() of a valid instant.
GetFullYear(ts) == CivilFromDays(ts.n \div SecondsPerDay).y

AllDigits(s) == \A i \in 1..Len(s) : IsDigit(s[i])

\* new Date(text) / Date.parse(text) for the texts the model feeds it:
\* "YYYY-MM-DD", optionally followed by " " or "T" and "HH:MM" or
\* "HH:MM:SS"; every other text is an Invalid Date.
DateParse(s) ==
    LET n == Len(s)
        dateOk == /\ n >= 10
                  /\ AllDigits(SubSeq(s, 1, 4)) /\ s[5] = "-"
                  /\ AllDigits(SubSeq(s, 6, 7)) /\ s[8] = "-"
                  /\ AllDigits(SubSeq(s, 9, 10))
        timeOk == \/ n = 10
                  \/ /\ n \in {16, 19}
                     /\ s[11] \in {" ", "T"}
                     /\ AllDigits(SubSeq(s, 12, 13)) /\ s[14] = ":"
                     /\ AllDigits(SubSeq(s, 15, 16))
                     /\ n = 19 => s[17] = ":" /\ AllDigits(SubSeq(s, 18, 19))
        y == DigitsValue(SubSeq(s, 1, 4))
        m == DigitsValue(SubSeq(s, 6, 7))
        d == DigitsValue(SubSeq(s, 9, 10))
        hh == IF n >= 16 THEN DigitsValue(SubSeq(s, 12, 13)) ELSE 0
        mi == IF n >= 16 THEN DigitsValue(SubSeq(s, 15, 16)) ELSE 0
        ss == IF n = 19 THEN DigitsValue(SubSeq(s, 18, 19)) ELSE 0
    IN  IF /\ dateOk /\ timeOk
           /\ m \in 1..12 /\ d \in 1..31
           /\ hh \in 0..23 /\ mi \in 0..59 /\ ss \in 0..59
        THEN Num(DaysFromCivil(y, m, d) * SecondsPerDay + hh * 3600 + mi * 60 + ss)
        ELSE NaN

\* new Date((serial - 25569) * 86400 * 1000): the instant of an Excel
\* serial day number, Invalid Date outside the range of Date.
DateFromSerial(serial) ==
    LET days == serial - 25569
    IN  IF days > MaxDateDays \/ days < -MaxDateDays THEN NaN
        ELSE Num(days * SecondsPerDay)

Pad2(n) == <<Digits[(n \div 10) + 1], Digits[(n % 10) + 1]>>
Pad4(n) == Pad2(n \div 100) \o Pad2(n % 100)

\* date.toISOString().split('T')[0] of a valid instant.
ISODate(ts) ==
    LET c == CivilFromDays(ts.n \div SecondsPerDay)
    IN  Pad4(c.y) \o <<"-">> \o Pad2(c.m) \o <<"-">> \o Pad2(c.d)

\* s.split('T')[0]
BeforeT(s) ==
    IF \E i \in 1..Len(s) : s[i] = "T"
    THEN SubSeq(s, 1, (CHOOSE k \in 1..Len(s) :
                          s[k] = "T" /\ \A j \in 1..(k - 1) : s[j] # "T") - 1)
    ELSE s

\* Math.floor(Math.random() * range), Math.random() being k / RandDen.
RandomBelow(k, range) == (k * range) \div RandDen

\* The draws of Math.random() one parse consumes.
RandomDraws == [1..3 -> 0..(RandDen - 1)]

\* The draws of a parse that calls Math.random() for no row.
NoDraw == [k \in 1..3 |-> 0]

\* timestamp.setHours(randomHours, randomMinutes, randomSeconds, 0) with the
\* three draws rnd[1], rnd[2], rnd[3]; an Invalid Date stays invalid.
SetRandomTime(ts, rnd) ==
    IF IsNaN(ts) THEN NaN
    ELSE Num((ts.n \div SecondsPerDay) * SecondsPerDay
             + RandomBelow(rnd[1], 24) * 3600
             + RandomBelow(rnd[2], 60) * 60
             + RandomBelow(rnd[3], 60))

(***************************************************************************)
(* parseExcelToCDR: one normalized row to one record.                      *)
(***************************************************************************)
Fields == {"A-Party", "B-Party", "IMEI", "Call Type", "Duration",
           "Date And Time", "Date", "Time", "SiteLocation", "Latitude",
           "Longitude"}

CALL_OUTGOING == <<"c", "a", "l", "l", "_", "o", "u", "t", "g", "o", "i", "n", "g">>
CALL_INCOMING == <<"c", "a", "l", "l", "_", "i", "n", "c", "o", "m", "i", "n", "g">>
SMS_SENT == <<"s", "m", "s", "_", "s", "e", "n", "t">>
SMS_RECEIVED == <<"s", "m", "s", "_", "r", "e", "c", "e", "i", "v", "e", "d">>

CallTypes == {CALL_OUTGOING, CALL_INCOMING, SMS_SENT, SMS_RECEIVED}

\* The replace(/[/-]/g, c) rewrites of the date text.
ReplaceSeparators(s, c) ==
    [i \in 1..Len(s) |-> IF s[i] \in {"/", "-"} THEN c ELSE s[i]]

\* /(\d{2})[-/](\d{2})[-/](\d{w})/ matches s at position i.
DmyMatchAt(s, i, w) ==
    /\ i + 5 + w <= Len(s)
    /\ AllDigits(SubSeq(s, i, i + 1)) /\ s[i + 2] \in {"-", "/"}
    /\ AllDigits(SubSeq(s, i + 3, i + 4)) /\ s[i + 5] \in {"-", "/"}
    /\ AllDigits(SubSeq(s, i + 6, i + 5 + w))

\* s.replace(/(\d{2})[-/](\d{2})[-/](\d{w})/, prefix + '$3-$2-$1'): the
\* first match is rewritten, a text without a match is returned unchanged.
DmyRewrite(s, w, prefix) ==
    IF \E i \in 1..Len(s) : DmyMatchAt(s, i, w)
    THEN LET i == CHOOSE k \in 1..Len(s) :
                      DmyMatchAt(s, k, w) /\ \A j \in 1..(k - 1) : ~DmyMatchAt(s, j, w)
         IN  SubSeq(s, 1, i - 1) \o prefix
                 \o SubSeq(s, i + 6, i + 5 + w) \o <<"-">>
                 \o SubSeq(s, i + 3, i + 4) \o <<"-">>
                 \o SubSeq(s, i, i + 1)
                 \o SubSeq(s, i + 6 + w, Len(s))
    ELSE s

\* The four rewrites tried, in order, when the direct parse is rejected.
dateFormats(s) ==
    << ReplaceSeparators(s, "-"),
       ReplaceSeparators(s, "/"),
       DmyRewrite(s, 4, <<>>),
       DmyRewrite(s, 2, <<"2", "0">>) >>

\* A rewrite is accepted when it parses and 2010 < year <= 2024.
FormatAccepted(f) ==
    LET testDate == DateParse(f)
    IN  ~IsNaN(testDate) /\ GetFullYear(testDate) > 2010
                         /\ GetFullYear(testDate) <= 2024

\* The text branch of the Date And Time field: the direct parse when it is
\* valid and its year is above 2010, else the first accepted rewrite, else
\* the initial value new Date().
TextTimestamp(s, now) ==
    LET parsedDate == DateParse(s)
        fs == dateFormats(s)
    IN  IF ~IsNaN(parsedDate) /\ GetFullYear(parsedDate) > 2010 THEN parsedDate
        ELSE IF \E i \in 1..Len(fs) : FormatAccepted(fs[i])
        THEN DateParse(fs[CHOOSE i \in 1..Len(fs) :
                            FormatAccepted(fs[i])
                            /\ \A j \in 1..(i - 1) : ~FormatAccepted(fs[j])])
        ELSE Num(now)

\* The numeric branch: the serial date, moved five hours back.
SerialTimestamp(serial) ==
    LET utcDate == DateFromSerial(serial)
    IN  IF IsNaN(utcDate) THEN NaN ELSE Num(utcDate.n - 5 * 60 * 60)

\* The separate Date + Time branch throws (toISOString of an Invalid Date)
\* when the Date cell is a number outside the range of Date.
DateTimeThrows(row) ==
    /\ Falsy(row["Date And Time"])
    /\ ~Falsy(row["Date"]) /\ ~Falsy(row["Time"])
    /\ row["Date"].t = "num"
    /\ IsNaN(DateFromSerial(row["Date"].n))

\* The timestamp before the final validity check.
RawTimestamp(row, now, rnd) ==
    LET dateTimeField == row["Date And Time"]
        dateField == row["Date"]
        timeField == row["Time"]
    IN  IF ~Falsy(dateTimeField)
        THEN CASE dateTimeField.t = "str" -> TextTimestamp(dateTimeField.s, now)
               [] dateTimeField.t = "num" -> SerialTimestamp(dateTimeField.n)
               [] OTHER -> Num(now)
        ELSE IF ~Falsy(dateField) /\ ~Falsy(timeField)
        THEN LET dateStr == IF dateField.t = "num"
                            THEN ISODate(DateFromSerial(dateField.n))
                            ELSE BeforeT(JsString(dateField))
             IN  DateParse(dateStr \o <<" ">> \o JsString(timeField))
        ELSE IF ~Falsy(dateField)
        THEN SetRandomTime(IF dateField.t = "num"
                           THEN DateFromSerial(dateField.n)
                           ELSE DateParse(JsString(dateField)), rnd)
        ELSE Num(now - RandomBelow(rnd[1], SecondsPerDay * 30))

\* A variant of ValidTimestamp without the validity check.
KeepTimestamp(ts, now, rnd) == ts

\* An invalid timestamp is replaced by the current date at a random time.
ValidTimestamp(ts, now, rnd) ==
    IF IsNaN(ts) THEN SetRandomTime(Num(now), rnd) ELSE ts

NullIfNaN(x) == IF IsNaN(x) THEN Null ELSE x

\* The split of a truthy SiteLocation: name|lat|lng, or the whole text.
SplitLocation(parts, whole) ==
    IF Len(parts) >= 3
    THEN [location |-> Trim(parts[1]),
          latitude |-> NullIfNaN(ParseFloat(Str(parts[2]))),
          longitude |-> NullIfNaN(ParseFloat(Str(parts[3])))]
    ELSE [location |-> Trim(whole), latitude |-> Null, longitude |-> Null]

SiteCoordinates(siteLocation) ==
    IF Falsy(siteLocation)
    THEN [location |-> <<>>, latitude |-> Null, longitude |-> Null]
    ELSE SplitLocation(SplitPipe(JsString(siteLocation)), JsString(siteLocation))

\* If a coordinate is still null, both are taken from the Latitude and
\* Longitude fields when both of these parse.
StandardFields(site, lat, lng) ==
    IF (site.latitude = Null \/ site.longitude = Null) /\ ~IsNaN(lat) /\ ~IsNaN(lng)
    THEN [site EXCEPT !.latitude = lat, !.longitude = lng]
    ELSE site

\* Location, latitude and longitude of a row.
ParseLocation(row) ==
    StandardFields(SiteCoordinates(OrElse(row["SiteLocation"], Str(<<>>))),
                   ParseFloat(OrElse(row["Latitude"], Str(<<"0">>))),
                   ParseFloat(OrElse(row["Longitude"], Str(<<"0">>))))

\* A variant of ClassifySms that tests the incoming patterns first.
ClassifySmsInFirst(t) ==
    IF Includes(t, <<"i", "n", "c", "o", "m", "i", "n", "g">>) \/ Includes(t, <<"r", "e", "c", "e", "i", "v", "e", "d">>) \/ Includes(t, <<"i", "n">>)
    THEN SMS_RECEIVED
    ELSE IF Includes(t, <<"o", "u", "t", "g", "o", "i", "n", "g">>) \/ Includes(t, <<"s", "e", "n", "t">>) \/ Includes(t, <<"o", "u", "t">>)
    THEN SMS_SENT
    ELSE SMS_RECEIVED

\* A text that mentions SMS: outgoing is tested first, received is the
\* default.
ClassifySms(t) ==
    IF Includes(t, <<"o", "u", "t", "g", "o", "i", "n", "g">>) \/ Includes(t, <<"s", "e", "n", "t">>) \/ Includes(t, <<"o", "u", "t">>)
    THEN SMS_SENT
    ELSE IF Includes(t, <<"i", "n", "c", "o", "m", "i", "n", "g">>) \/ Includes(t, <<"r", "e", "c", "e", "i", "v", "e", "d">>) \/ Includes(t, <<"i", "n">>)
    THEN SMS_RECEIVED
    ELSE SMS_RECEIVED

\* A voice text: MT / terminated, MO / originated, else outgoing.
ClassifyVoice(t) ==
    IF t = <<"m", "t">> \/ Includes(t, <<"t", "e", "r", "m", "i", "n", "a", "t", "e", "d">>) THEN CALL_INCOMING
    ELSE IF t = <<"m", "o">> \/ Includes(t, <<"o", "r", "i", "g", "i", "n", "a", "t", "e", "d">>) THEN CALL_OUTGOING
    ELSE CALL_OUTGOING

\* A variant of DefaultCallType that leaves the text as it is.
KeepCallTypeText(t) == t

\* A text no pattern matches is an outgoing call.
DefaultCallType(t) == CALL_OUTGOING

\* The classification of a lower-cased, trimmed call-type text.
ClassifyCallType(t) ==
    IF Includes(t, <<"s", "m", "s">>) \/ Includes(t, <<"m", "e", "s", "s", "a", "g", "e">>) THEN ClassifySms(t)
    ELSE IF Includes(t, <<"o", "u", "t", "g", "o", "i", "n", "g">>) \/ Includes(t, <<"s", "e", "n", "t">>) THEN CALL_OUTGOING
    ELSE IF Includes(t, <<"i", "n", "c", "o", "m", "i", "n", "g">>) \/ Includes(t, <<"r", "e", "c", "e", "i", "v", "e", "d">>) THEN CALL_INCOMING
    ELSE IF t = <<"i", "n", "c", "o", "m", "i", "n", "g">> \/ t = <<"i", "n", "c">> THEN CALL_INCOMING
    ELSE IF t = <<"o", "u", "t", "g", "o", "i", "n", "g">> \/ t = <<"o", "u", "t">> THEN CALL_OUTGOING
    ELSE IF Includes(t, <<"o", "u", "t">>) /\ ~Includes(t, <<"o", "u", "t", "g", "o", "i", "n", "g">>) THEN CALL_OUTGOING
    ELSE IF Includes(t, <<"i", "n">>) /\ ~Includes(t, <<"i", "n", "c", "o", "m", "i", "n", "g">>) THEN CALL_INCOMING
    ELSE IF Includes(t, <<"v", "o", "i", "c", "e">>) \/ Includes(t, <<"c", "a", "l", "l">>) \/ t = <<"m", "o">> \/ t = <<"m", "t">>
    THEN ClassifyVoice(t)
    ELSE DefaultCallType(t)

\* The callType of a row: the Call Type cell, 'call' when it is falsy,
\* as a string, lower-cased, trimmed, classified.
NormalizedCallType(row) ==
    ClassifyCallType(Trim(ToLowerCase(
        JsString(OrElse(row["Call Type"], Str(<<"c", "a", "l", "l">>))))))

\* The duration of a row.
ParseDuration(row) == ParseInt(OrElse(row["Duration"], Str(<<"0">>)))

RowRecord(row, uploadId, timestamp, loc) ==
    [callerNumber |-> Trim(JsString(OrElse(row["A-Party"], Str(<<>>)))),
     calledNumber |-> Trim(JsString(OrElse(row["B-Party"], Str(<<>>)))),
     imei |-> Trim(JsString(OrElse(row["IMEI"], Str(<<>>)))),
     callType |-> NormalizedCallType(row),
     duration |-> ParseDuration(row),
     timestamp |-> timestamp,
     location |-> loc.location,
     latitude |-> loc.latitude,
     longitude |-> loc.longitude,
     uploadId |-> uploadId]

\* The record the map callback returns for a row.
ParseRow(row, uploadId, now, rnd) ==
    RowRecord(row, uploadId, ValidTimestamp(RawTimestamp(row, now, rnd), now, rnd),
              ParseLocation(row))

(***************************************************************************)
(* The ranking analyzers.  A Map is a sequence in insertion order.         *)
(***************************************************************************)
TopLimit == 200

Front(s) == SubSeq(s, 1, Len(s) - 1)
Last(s) == s[Len(s)]

\* The keys of a Map filled by s, in first-insertion order.
RECURSIVE InsertionOrder(_)
InsertionOrder(s) ==
    IF s = <<>> THEN <<>>
    ELSE LET f == InsertionOrder(Front(s))
         IN  IF \E i \in 1..Len(f) : f[i] = Last(s) THEN f ELSE Append(f, Last(s))

\* record.duration || 0
DurationOrZero(r) == IF Falsy(r.duration) THEN 0 ELSE r.duration.n

RECURSIVE SumDuration(_)
SumDuration(rs) ==
    IF rs = <<>> THEN 0 ELSE SumDuration(Front(rs)) + DurationOrZero(Last(rs))

RECURSIVE InsertByValue(_, _)
InsertByValue(sorted, x) ==
    IF sorted = <<>> THEN <<x>>
    ELSE IF Head(sorted).value >= x.value
         THEN <<Head(sorted)>> \o InsertByValue(Tail(sorted), x)
         ELSE <<x>> \o sorted

\* A variant of SortByValueDesc that leaves the items in insertion order.
Unsorted(items) == items

\* items.sort((a, b) => b.value - a.value): descending by value, stable.
RECURSIVE SortByValueDesc(_)
SortByValueDesc(items) ==
    IF items = <<>> THEN <<>>
    ELSE InsertByValue(SortByValueDesc(Front(items)), Last(items))

\* items.map((item, index) => ({ ...item, rank: index + 1 }))
WithRank(items) ==
    [i \in 1..Len(items) |->
        [number |-> items[i].number, value |-> items[i].value,
         displayValue |-> items[i].displayValue, rank |-> i]]

\* a % b of JavaScript: the remainder has the sign of the dividend.
JsRem(a, b) == IF a >= 0 THEN a % b ELSE -((-a) % b)

\* n.toString() of an integer.
IntToString(n) == JsString(Num(n))

\* A variant of formatDuration whose minutes are not reduced by the hours.
formatDurationTotalMinutes(seconds) ==
    LET hours == seconds \div 3600
        minutes == seconds \div 60
    IN  IF hours > 0
        THEN IntToString(hours) \o <<"h", " ">> \o IntToString(minutes) \o <<"m">>
        ELSE IntToString(minutes) \o <<"m">>

formatDuration(seconds) ==
    LET hours == seconds \div 3600
        minutes == JsRem(seconds, 3600) \div 60
    IN  IF hours > 0
        THEN IntToString(hours) \o <<"h", " ">> \o IntToString(minutes) \o <<"m">>
        ELSE IntToString(minutes) \o <<"m">>

\* The ranking by called number of the records of one call type: the shared
\* body of analyzeOutgoingCalls, analyzeIncomingCalls, analyzeOutgoingSMS
\* and analyzeIncomingSMS.
RankByCalledNumber(records, callType) ==
    LET sel == SelectSeq(records,
                   LAMBDA r : r.callType = callType /\ r.calledNumber # <<>>)
        keys == InsertionOrder([i \in 1..Len(sel) |-> sel[i].calledNumber])
        count(n) == Cardinality({i \in 1..Len(sel) : sel[i].calledNumber = n})
        items == [i \in 1..Len(keys) |->
                    [number |-> keys[i], value |-> count(keys[i]),
                     displayValue |-> IntToString(count(keys[i]))]]
    IN  WithRank(SortByValueDesc(items))

\* A variant of analyzeOutgoingCalls that selects the incoming calls.
RankIncomingAsOutgoing(records) == RankByCalledNumber(records, CALL_INCOMING)

analyzeOutgoingCalls(records) == RankByCalledNumber(records, CALL_OUTGOING)
analyzeIncomingCalls(records) == RankByCalledNumber(records, CALL_INCOMING)
analyzeOutgoingSMS(records) == RankByCalledNumber(records, SMS_SENT)
analyzeIncomingSMS(records) == RankByCalledNumber(records, SMS_RECEIVED)

\* record.calledNumber || record.callerNumber
TargetNumber(r) == IF r.calledNumber # <<>> THEN r.calledNumber ELSE r.callerNumber

\* A variant of analyzeTopNumbers that counts a text in the direction of
\* its callType.
analyzeTopNumbersStraight(records, type) ==
    LET sel == SelectSeq(records, LAMBDA r : TargetNumber(r) # <<>>)
        keys == InsertionOrder([i \in 1..Len(sel) |-> TargetNumber(sel[i])])
        of(n) == SelectSeq(sel, LAMBDA r : TargetNumber(r) = n)
        calls(n) == SelectSeq(of(n),
                        LAMBDA r : r.callType \in {CALL_INCOMING, CALL_OUTGOING})
        smsReceived(n) == Len(SelectSeq(of(n), LAMBDA r : r.callType = SMS_RECEIVED))
        smsSent(n) == Len(SelectSeq(of(n), LAMBDA r : r.callType = SMS_SENT))
        value(n) == CASE type = "calls" -> Len(calls(n))
                      [] type = "duration" -> SumDuration(calls(n))
                      [] type = "sms_sent" -> smsSent(n)
                      [] type = "sms_received" -> smsReceived(n)
        items == [i \in 1..Len(keys) |->
                    [number |-> keys[i], value |-> value(keys[i]),
                     displayValue |-> IF type = "duration"
                                      THEN formatDuration(value(keys[i]))
                                      ELSE IntToString(value(keys[i]))]]
        sorted == SortByValueDesc(items)
    IN  WithRank(SubSeq(sorted, 1, IF Len(sorted) < TopLimit THEN Len(sorted)
                                   ELSE TopLimit))

analyzeTopNumbers(records, type) ==
    LET sel == SelectSeq(records, LAMBDA r : TargetNumber(r) # <<>>)
        keys == InsertionOrder([i \in 1..Len(sel) |-> TargetNumber(sel[i])])
        of(n) == SelectSeq(sel, LAMBDA r : TargetNumber(r) = n)
        calls(n) == SelectSeq(of(n),
                        LAMBDA r : r.callType \in {CALL_INCOMING, CALL_OUTGOING})
        smsReceived(n) == Len(SelectSeq(of(n), LAMBDA r : r.callType = SMS_SENT))
        smsSent(n) == Len(SelectSeq(of(n), LAMBDA r : r.callType = SMS_RECEIVED))
        value(n) == CASE type = "calls" -> Len(calls(n))
                      [] type = "duration" -> SumDuration(calls(n))
                      [] type = "sms_sent" -> smsSent(n)
                      [] type = "sms_received" -> smsReceived(n)
        items == [i \in 1..Len(keys) |->
                    [number |-> keys[i], value |-> value(keys[i]),
                     displayValue |-> IF type = "duration"
                                      THEN formatDuration(value(keys[i]))
                                      ELSE IntToString(value(keys[i]))]]
        sorted == SortByValueDesc(items)
    IN  WithRank(SubSeq(sorted, 1, IF Len(sorted) < TopLimit THEN Len(sorted)
                                   ELSE TopLimit))

\* The talk-time leaderboard the upload handler derives from a call
\* ranking: each item keeps its fields (its rank too), value becomes the
\* summed duration of the calls the number takes part in, and the list is
\* sorted again by value.
TalkTime(ranking, records) ==
    LET total(n) == SumDuration(SelectSeq(records,
                        LAMBDA r : /\ r.callType \in {CALL_OUTGOING, CALL_INCOMING}
                                   /\ (r.callerNumber = n \/ r.calledNumber = n)))
    IN  SortByValueDesc(
            [i \in 1..Len(ranking) |->
                [ranking[i] EXCEPT !.value = total(ranking[i].number),
                                   !.displayValue = formatDuration(total(ranking[i].number))]])

\* The UTC day number of a record's timestamp.
DayOf(r) == r.timestamp.n \div SecondsPerDay

\* The elements of a finite set of integers, ascending.
RECURSIVE Ascending(_)
Ascending(S) ==
    IF S = {} THEN <<>>
    ELSE LET m == CHOOSE x \in S : \A y \in S : x <= y
         IN  <<m>> \o Ascending(S \ {m})

generateDailyBreakdown(records) ==
    LET days == Ascending({DayOf(records[i]) : i \in 1..Len(records)})
        n(d, callType) == Cardinality({i \in 1..Len(records) :
                              DayOf(records[i]) = d /\ records[i].callType = callType})
    IN  [k \in 1..Len(days) |->
            [date |-> ISODate(Num(days[k] * SecondsPerDay)),
             incomingCalls |-> n(days[k], CALL_INCOMING),
             outgoingCalls |-> n(days[k], CALL_OUTGOING),
             incomingSms |-> n(days[k], SMS_RECEIVED),
             outgoingSms |-> n(days[k], SMS_SENT)]]

\* generateFileStats without processingTime, a reading of the wall clock;
\* dateRange is the number of days in "<n> Days".
generateFileStats(records) ==
    LET ts == {records[i].timestamp.n : i \in 1..Len(records)}
        max == CHOOSE x \in ts : \A y \in ts : y <= x
        min == CHOOSE x \in ts : \A y \in ts : x <= y
    IN  [totalRecords |-> Len(records),
         uniqueNumbers |-> Cardinality({records[i].callerNumber : i \in 1..Len(records)}),
         dateRange |-> IF ts = {} THEN 0
                       ELSE (max - min + SecondsPerDay - 1) \div SecondsPerDay,
         dailyBreakdown |-> generateDailyBreakdown(records)]

(***************************************************************************)
(* analyzeSpecificNumber: the profile of one number.                       *)
(***************************************************************************)
DayLimit == 90

\* date.toISOString() of a valid instant; the model's instants are whole
\* seconds.
ISODateTime(ts) ==
    LET s == ts.n % SecondsPerDay
    IN  ISODate(ts) \o <<"T">> \o Pad2(s \div 3600) \o <<":">>
            \o Pad2((s % 3600) \div 60) \o <<":">> \o Pad2(s % 60) \o <<".", "0", "0", "0", "Z">>

WeekdayNames ==
    << <<"S", "u", "n", "d", "a", "y">>, <<"M", "o", "n", "d", "a", "y">>, <<"T", "u", "e", "s", "d", "a", "y">>, <<"W", "e", "d", "n", "e", "s", "d", "a", "y">>, <<"T", "h", "u", "r", "s", "d", "a", "y">>, <<"F", "r", "i", "d", "a", "y">>, <<"S", "a", "t", "u", "r", "d", "a", "y">> >>

MonthNames ==
    << <<"J", "a", "n", "u", "a", "r", "y">>, <<"F", "e", "b", "r", "u", "a", "r", "y">>, <<"M", "a", "r", "c", "h">>, <<"A", "p", "r", "i", "l">>, <<"M", "a", "y">>, <<"J", "u", "n", "e">>, <<"J", "u", "l", "y">>, <<"A", "u", "g", "u", "s", "t">>,
       <<"S", "e", "p", "t", "e", "m", "b", "e", "r">>, <<"O", "c", "t", "o", "b", "e", "r">>, <<"N", "o", "v", "e", "m", "b", "e", "r">>, <<"D", "e", "c", "e", "m", "b", "e", "r">> >>

\* new Date(date).toLocaleDateString('en-US', { weekday: 'long', month:
\* 'long', day: 'numeric' }) of a "YYYY-MM-DD" text, the server's time zone
\* being UTC: "Monday, January 15".
LongDate(date) ==
    LET days == DateParse(date).n \div SecondsPerDay
        c == CivilFromDays(days)
    IN  WeekdayNames[((days + 4) % 7) + 1] \o <<",", " ">> \o MonthNames[c.m]
            \o <<" ">> \o NatToString(c.d)

RECURSIVE Gcd(_, _)
Gcd(a, b) == IF b = 0 THEN a ELSE Gcd(b, a % b)

\* The quotient a / b of two naturals, b > 0, as a reduced fraction.
Quotient(a, b) == [num |-> a \div Gcd(a, b), den |-> b \div Gcd(a, b)]

\* Insertion of the keyed item x into a list sorted by key, after the items
\* with a key that is not greater (ascending, stable).
RECURSIVE InsertByKeyAsc(_, _)
InsertByKeyAsc(sorted, x) ==
    IF sorted = <<>> THEN <<x>>
    ELSE IF Head(sorted).key <= x.key
         THEN <<Head(sorted)>> \o InsertByKeyAsc(Tail(sorted), x)
         ELSE <<x>> \o sorted

RECURSIVE SortKeyed(_)
SortKeyed(keyed) ==
    IF keyed = <<>> THEN <<>>
    ELSE InsertByKeyAsc(SortKeyed(Front(keyed)), Last(keyed))

\* items.sort((a, b) => key(a) - key(b)): ascending, stable.
SortByKeyAsc(items, key(_)) ==
    LET sorted == SortKeyed([i \in 1..Len(items) |->
                                [key |-> key(items[i]), item |-> items[i]]])
    IN  [i \in 1..Len(items) |-> sorted[i].item]

\* items.sort((a, b) => key(b) - key(a)): descending, stable.
SortByKeyDesc(items, key(_)) ==
    LET neg(x) == 0 - key(x) IN SortByKeyAsc(items, neg)

TimeOf(r) == r.timestamp.n

\* One record of a day of the profile.
ProfileRecord(r) ==
    [timestamp |-> ISODateTime(r.timestamp),
     callType |-> r.callType,
     duration |-> DurationOrZero(r),
     callerNumber |-> r.callerNumber,
     calledNumber |-> r.calledNumber,
     location |-> r.location]

\* One day of the profile, from the day's records in list order.
ProfileDay(date, recs) ==
    LET calls == SelectSeq(recs, LAMBDA r : Includes(r.callType, <<"c", "a", "l", "l">>))
        sms == SelectSeq(recs, LAMBDA r : /\ ~Includes(r.callType, <<"c", "a", "l", "l">>)
                                           /\ Includes(r.callType, <<"s", "m", "s">>))
        sorted == SortByKeyAsc(recs, TimeOf)
    IN  [date |-> date,
         calls |-> Len(calls),
         sms |-> Len(sms),
         duration |-> SumDuration(calls),
         total |-> Len(calls) + Len(sms),
         records |-> [i \in 1..Len(sorted) |-> ProfileRecord(sorted[i])]]

\* A variant of MostActive that takes the most recent day.
MostRecent(days) == days[1]

\* activeDaysWithData.reduce((max, day) => day.total > max.total ? day : max)
RECURSIVE MostActive(_)
MostActive(days) ==
    IF Len(days) = 1 THEN days[1]
    ELSE LET max == MostActive(Front(days))
         IN  IF Last(days).total > max.total THEN Last(days) ELSE max

\* activeDaysWithData.reduce((min, day) => day.total < min.total ? day : min)
RECURSIVE LeastActive(_)
LeastActive(days) ==
    IF Len(days) = 1 THEN days[1]
    ELSE LET min == LeastActive(Front(days))
         IN  IF Last(days).total < min.total THEN Last(days) ELSE min

\* The summary of the most or least active day.
DaySummary(day) ==
    [date |-> LongDate(day.date), calls |-> day.calls, sms |-> day.sms,
     duration |-> day.duration, total |-> day.total]

RECURSIVE SumSeq(_)
SumSeq(ns) == IF ns = <<>> THEN 0 ELSE SumSeq(Front(ns)) + Last(ns)

\* items.reduce((sum, x) => sum + f(x), 0)
SumOf(items, f(_)) == SumSeq([i \in 1..Len(items) |-> f(items[i])])

\* The profile built from the records of the target, a non-empty list.
NumberProfile(numberRecords, targetNumber) ==
    LET dates == InsertionOrder([i \in 1..Len(numberRecords) |->
                                    ISODate(numberRecords[i].timestamp)])
        dayOf(d) == ProfileDay(d, SelectSeq(numberRecords,
                                      LAMBDA r : ISODate(r.timestamp) = d))
        dateTime(day) == DateParse(day.date).n
        dailyBreakdown == SortByKeyDesc([k \in 1..Len(dates) |-> dayOf(dates[k])],
                                        dateTime)
        callsOf(day) == day.calls
        smsOf(day) == day.sms
        durationOf(day) == day.duration
        activeDays == SelectSeq(dailyBreakdown, LAMBDA day : day.total > 0)
        totalCalls == SumOf(dailyBreakdown, callsOf)
        totalSms == SumOf(dailyBreakdown, smsOf)
    IN  [number |-> targetNumber,
         totalDays |-> Len(activeDays),
         totalCalls |-> totalCalls,
         totalSms |-> totalSms,
         totalDuration |-> SumOf(dailyBreakdown, durationOf),
         avgPerDay |-> IF Len(activeDays) > 0
                       THEN Quotient(totalCalls + totalSms, Len(activeDays))
                       ELSE Quotient(0, 1),
         mostActiveDay |-> IF Len(activeDays) > 0
                           THEN DaySummary(MostActive(activeDays)) ELSE Null,
         leastActiveDay |-> IF Len(activeDays) > 0
                            THEN DaySummary(LeastActive(activeDays)) ELSE Null,
         dailyBreakdown |-> SubSeq(dailyBreakdown, 1,
                                IF Len(dailyBreakdown) < DayLimit
                                THEN Len(dailyBreakdown) ELSE DayLimit)]

analyzeSpecificNumber(records, targetNumber) ==
    LET numberRecords == SelectSeq(records,
            LAMBDA r : r.callerNumber = targetNumber \/ r.calledNumber = targetNumber)
    IN  IF Len(numberRecords) = 0 THEN Null
        ELSE NumberProfile(numberRecords, targetNumber)

(***************************************************************************)
(* analyzeMovementPatterns: the location changes of each number.           *)
(***************************************************************************)
MovementLimit == 50
HighMobility == 15
MediumMobility == 8

\* The walk over the sorted movements of one number: the changes so far,
\* the previous location, and the calls and duration since the last change.
RECURSIVE MovementWalk(_)
MovementWalk(movements) ==
    IF movements = <<>>
    THEN [changes |-> <<>>, previousLocation |-> <<>>,
          callsAfterMove |-> 0, durationAfterMove |-> 0]
    ELSE LET w == MovementWalk(Front(movements))
             movement == Last(movements)
             moved == w.previousLocation # <<>>
                          /\ w.previousLocation # movement.location
         IN  [changes |->
                  IF moved
                  THEN Append(w.changes,
                           [fromLocation |-> w.previousLocation,
                            toLocation |-> movement.location,
                            timestamp |-> ISODateTime(movement.timestamp),
                            callsAfter |-> w.callsAfterMove,
                            durationAfter |-> w.durationAfterMove])
                  ELSE w.changes,
              previousLocation |-> movement.location,
              callsAfterMove |-> (IF moved THEN 0 ELSE w.callsAfterMove)
                                     + movement.calls,
              durationAfterMove |-> (IF moved THEN 0 ELSE w.durationAfterMove)
                                        + movement.duration]

\* changes.length > 15 ? 'high' : changes.length > 8 ? 'medium' : 'low'
\* A variant of MobilityLevel whose thresholds are inclusive.
MobilityLevelInclusive(n) ==
    IF n >= HighMobility THEN "high"
    ELSE IF n >= MediumMobility THEN "medium" ELSE "low"

MobilityLevel(n) ==
    IF n > HighMobility THEN "high"
    ELSE IF n > MediumMobility THEN "medium"
    ELSE "low"

TotalChangesOf(result) == result.totalChanges

analyzeMovementPatterns(records) ==
    LET sel == SelectSeq(records,
                   LAMBDA r : /\ r.location # <<>>
                              /\ r.callType = <<"c", "a", "l", "l">>
                              /\ TargetNumber(r) # <<>>)
        numbers == InsertionOrder([i \in 1..Len(sel) |-> TargetNumber(sel[i])])
        movementsOf(n) ==
            LET recs == SelectSeq(sel, LAMBDA r : TargetNumber(r) = n)
            IN  SortByKeyAsc([i \in 1..Len(recs) |->
                                 [location |-> recs[i].location,
                                  timestamp |-> recs[i].timestamp,
                                  calls |-> 1,
                                  duration |-> DurationOrZero(recs[i])]],
                             TimeOf)
        resultOf(n) ==
            LET changes == MovementWalk(movementsOf(n)).changes
            IN  [number |-> n, changes |-> changes,
                 totalChanges |-> Len(changes),
                 mobilityLevel |-> MobilityLevel(Len(changes))]
        movementResults ==
            SelectSeq([k \in 1..Len(numbers) |-> resultOf(numbers[k])],
                      LAMBDA res : Len(res.changes) > 0)
        sorted == SortByKeyDesc(movementResults, TotalChangesOf)
    IN  SubSeq(sorted, 1, IF Len(sorted) < MovementLimit THEN Len(sorted)
                          ELSE MovementLimit)

(***************************************************************************)
(* analyzeDetailedLocationTimeline: the location changes of each           *)
(* subscriber with the activity at the new location.                       *)
(***************************************************************************)
TimelineLimit == 20
NumberListLimit == 5

UNKNOWN == <<"U", "n", "k", "n", "o", "w", "n">>

\* record.latitude && record.longitude ? { lat, lng } : null
NoCoordinates == [present |-> FALSE, lat |-> Null, lng |-> Null]

Coordinates(r) ==
    IF ~Falsy(r.latitude) /\ ~Falsy(r.longitude)
    THEN [present |-> TRUE, lat |-> r.latitude, lng |-> r.longitude]
    ELSE NoCoordinates

\* The entry pushed on the timeline of the caller of a record.
TimelineEntry(r) ==
    [timestamp |-> r.timestamp, location |-> r.location,
     coordinates |-> Coordinates(r), callType |-> r.callType,
     calledNumber |-> r.calledNumber, duration |-> DurationOrZero(r)]

\* The records that enter a timeline.
Located(records) ==
    SelectSeq(records, LAMBDA r : r.location # <<>> /\ r.callerNumber # <<>>)

\* A variant of SubscriberTimeline that leaves the timeline in list order.
SubscriberTimelineUnsorted(located, subscriber) ==
    LET own == SelectSeq(located, LAMBDA r : r.callerNumber = subscriber)
    IN  [k \in 1..Len(own) |-> TimelineEntry(own[k])]

\* The timeline of a subscriber, sorted by timestamp.
SubscriberTimeline(located, subscriber) ==
    LET own == SelectSeq(located, LAMBDA r : r.callerNumber = subscriber)
    IN  SortByKeyAsc([k \in 1..Len(own) |-> TimelineEntry(own[k])], TimeOf)

Indices(n) == [k \in 1..n |-> k]

\* currentLocation after the loop has handled the entries up to i.
RECURSIVE CurrentLocation(_, _)
CurrentLocation(timeline, i) ==
    IF i = 1 THEN timeline[1].location
    ELSE IF timeline[i].location # CurrentLocation(timeline, i - 1)
         THEN timeline[i].location
         ELSE CurrentLocation(timeline, i - 1)

\* timeline.findIndex((r, idx) => idx > i && r.location !== record.location),
\* 0 when there is none.
NextLocationIndex(timeline, i) ==
    IF \E idx \in (i + 1)..Len(timeline) : timeline[idx].location # timeline[i].location
    THEN CHOOSE idx \in (i + 1)..Len(timeline) :
             /\ timeline[idx].location # timeline[i].location
             /\ \A j \in (i + 1)..(idx - 1) : timeline[j].location = timeline[i].location
    ELSE 0

NewLocationEnd(timeline, i) ==
    IF NextLocationIndex(timeline, i) # 0
    THEN timeline[NextLocationIndex(timeline, i)].timestamp
    ELSE Last(timeline).timestamp

\* timeline.filter((r, idx) => idx >= i && r.location === record.location
\*                             && r.timestamp <= newLocationEnd)
NewLocationActivity(timeline, i, newLocationEnd) ==
    LET at == SelectSeq(Indices(Len(timeline)),
                  LAMBDA idx : /\ idx >= i
                               /\ timeline[idx].location = timeline[i].location
                               /\ timeline[idx].timestamp.n <= newLocationEnd.n)
    IN  [k \in 1..Len(at) |-> timeline[at[k]]]

DetailedRecord(activity) ==
    [timestamp |-> ISODateTime(activity.timestamp), callType |-> activity.callType,
     number |-> activity.calledNumber, duration |-> activity.duration]

\* activity.calledNumber || 'Unknown'
ActivityTarget(activity) ==
    IF activity.calledNumber # <<>> THEN activity.calledNumber ELSE UNKNOWN

OfCallType(activities, callType) ==
    SelectSeq(activities, LAMBDA a : a.callType = callType)

\* Array.from(set) of the target numbers added for the activities.
TargetNumbers(activities) ==
    InsertionOrder([k \in 1..Len(activities) |-> ActivityTarget(activities[k])])

FirstNumbers(numbers) ==
    SubSeq(numbers, 1, IF Len(numbers) < NumberListLimit THEN Len(numbers)
                       ELSE NumberListLimit)

\* The activities counted in contactCounts.
Contacts(activities) ==
    SelectSeq(activities, LAMBDA a : ActivityTarget(a) # UNKNOWN)

ContactCount(activities, number) ==
    Len(SelectSeq(activities, LAMBDA a : ActivityTarget(a) = number))

\* The first contact, in insertion order, with the largest count.
TopContact(contacts, numbers) ==
    IF numbers = <<>> THEN [number |-> <<>>, count |-> 0]
    ELSE LET top == CHOOSE k \in 1..Len(numbers) :
                        /\ \A j \in 1..Len(numbers) :
                               ContactCount(contacts, numbers[j])
                                   <= ContactCount(contacts, numbers[k])
                        /\ \A j \in 1..(k - 1) :
                               ContactCount(contacts, numbers[j])
                                   < ContactCount(contacts, numbers[k])
         IN  [number |-> numbers[top], count |-> ContactCount(contacts, numbers[top])]

RECURSIVE SumActivityDuration(_)
SumActivityDuration(activities) ==
    IF activities = <<>> THEN 0
    ELSE SumActivityDuration(Front(activities)) + Last(activities).duration

\* `${stayHours}h ${stayMinutes}m`, or `${stayMinutes}m` below one hour.
StayDuration(seconds) ==
    IF seconds \div 3600 > 0
    THEN IntToString(seconds \div 3600) \o <<"h", " ">> \o IntToString((seconds % 3600) \div 60) \o <<"m">>
    ELSE IntToString((seconds % 3600) \div 60) \o <<"m">>

ActivityInNewLocation(activities, contacts, stay) ==
    [incomingCalls |-> Len(OfCallType(activities, CALL_INCOMING)),
     outgoingCalls |-> Len(OfCallType(activities, CALL_OUTGOING)),
     incomingSms |-> Len(OfCallType(activities, SMS_RECEIVED)),
     outgoingSms |-> Len(OfCallType(activities, SMS_SENT)),
     totalDuration |-> SumActivityDuration(activities),
     topContactedNumber |-> TopContact(contacts, TargetNumbers(contacts)).number,
     topContactCount |-> TopContact(contacts, TargetNumbers(contacts)).count,
     stayDuration |-> StayDuration(stay),
     uniqueContacts |-> Len(TargetNumbers(contacts)),
     incomingCallNumbers |-> FirstNumbers(TargetNumbers(OfCallType(activities, CALL_INCOMING))),
     outgoingCallNumbers |-> FirstNumbers(TargetNumbers(OfCallType(activities, CALL_OUTGOING))),
     incomingSmsNumbers |-> FirstNumbers(TargetNumbers(OfCallType(activities, SMS_RECEIVED))),
     outgoingSmsNumbers |-> FirstNumbers(TargetNumbers(OfCallType(activities, SMS_SENT))),
     totalCallNumbers |-> Len(TargetNumbers(SelectSeq(contacts,
                              LAMBDA a : Includes(a.callType, <<"c", "a", "l", "l">>)))),
     totalSmsNumbers |-> Len(TargetNumbers(SelectSeq(contacts,
                             LAMBDA a : ~Includes(a.callType, <<"c", "a", "l", "l">>)))),
     detailedRecords |-> [k \in 1..Len(activities) |-> DetailedRecord(activities[k])]]

\* The change pushed for entry i of a timeline, i > 1.
LocationChange(subscriber, timeline, i, newLocationEnd, activities) ==
    [subscriber |-> subscriber,
     changeTime |-> ISODateTime(timeline[i].timestamp),
     fromLocation |-> IF CurrentLocation(timeline, i - 1) # <<>>
                      THEN CurrentLocation(timeline, i - 1) ELSE UNKNOWN,
     toLocation |-> timeline[i].location,
     coordinates |-> timeline[i].coordinates,
     activityInNewLocation |->
         ActivityInNewLocation(activities, Contacts(activities),
                               newLocationEnd.n - timeline[i].timestamp.n)]

\* The changes pushed by the walk over one timeline.
ChangesOfTimeline(subscriber, timeline) ==
    LET at == SelectSeq(Indices(Len(timeline)),
                  LAMBDA i : i > 1 /\ timeline[i].location
                                          # CurrentLocation(timeline, i - 1))
    IN  [k \in 1..Len(at) |->
            LocationChange(subscriber, timeline, at[k],
                NewLocationEnd(timeline, at[k]),
                NewLocationActivity(timeline, at[k], NewLocationEnd(timeline, at[k])))]

\* The changes of all subscribers, in the order of the Map.
RECURSIVE AllLocationChanges(_, _)
AllLocationChanges(located, subscribers) ==
    IF subscribers = <<>> THEN <<>>
    ELSE AllLocationChanges(located, Front(subscribers))
             \o ChangesOfTimeline(Last(subscribers),
                    SubscriberTimeline(located, Last(subscribers)))

\* new Date(text).getTime() of a text toISOString wrote, in seconds.
ParseISODateTime(s) ==
    IF Len(s) = 24 /\ SubSeq(s, 20, 24) = <<".", "0", "0", "0", "Z">> THEN DateParse(SubSeq(s, 1, 19))
    ELSE NaN

ChangeTimeOf(change) == ParseISODateTime(change.changeTime).n

analyzeDetailedLocationTimeline(records) ==
    LET locationChanges ==
            AllLocationChanges(Located(records),
                InsertionOrder([k \in 1..Len(Located(records)) |->
                                   Located(records)[k].callerNumber]))
        sorted == SortByKeyDesc(locationChanges, ChangeTimeOf)
    IN  SubSeq(sorted, 1, IF Len(sorted) < TimelineLimit THEN Len(sorted)
                          ELSE TimelineLimit)

(***************************************************************************)
(* analyzeIMEIChanges: the IMEIs each number was seen with.                *)
(***************************************************************************)
IMEILimit == 50

CALL == <<"c", "a", "l", "l">>

\* The records that reach the Map: with an IMEI and a target number.
WithIMEI(records) ==
    SelectSeq(records, LAMBDA r : r.imei # <<>> /\ TargetNumber(r) # <<>>)

\* The item of a number for an IMEI: the timestamp of the first record, in
\* list order, that carries the IMEI, and the counters of all its records.
IMEIItem(own, imei) ==
    LET with == SelectSeq(own, LAMBDA r : r.imei = imei)
    IN  [imei |-> imei,
         timestamp |-> with[1].timestamp,
         calls |-> Len(SelectSeq(with, LAMBDA r : r.callType = CALL)),
         duration |-> SumDuration(SelectSeq(with, LAMBDA r : r.callType = CALL)),
         smsSent |-> Len(SelectSeq(with, LAMBDA r : r.callType = SMS_SENT)),
         smsReceived |-> Len(SelectSeq(with, LAMBDA r : r.callType = SMS_RECEIVED))]

\* numberIMEIs.get(number): the items in the order their IMEIs first occur.
IMEIData(own) ==
    LET imeis == InsertionOrder([k \in 1..Len(own) |-> own[k].imei])
    IN  [k \in 1..Len(imeis) |-> IMEIItem(own, imeis[k])]

IMEIChange(previous, current) ==
    [timestamp |-> ISODateTime(current.timestamp),
     oldIMEI |-> previous.imei,
     newIMEI |-> current.imei,
     callsAfter |-> current.calls,
     durationAfter |-> current.duration,
     smsAfter |-> [sent |-> current.smsSent, received |-> current.smsReceived]]

\* The result pushed for a number with more than one IMEI.
IMEIResult(number, sortedIMEIs) ==
    [number |-> number,
     changes |-> [i \in 1..(Len(sortedIMEIs) - 1) |->
                     IMEIChange(sortedIMEIs[i], sortedIMEIs[i + 1])],
     totalChanges |-> Len(sortedIMEIs) - 1]

IMEIDataOf(withIMEI, number) ==
    IMEIData(SelectSeq(withIMEI, LAMBDA r : TargetNumber(r) = number))

\* imeiData.sort((a, b) => a.timestamp.getTime() - b.timestamp.getTime())
SortedIMEIs(imeiData) == SortByKeyAsc(imeiData, TimeOf)

analyzeIMEIChanges(records) ==
    LET numbers == InsertionOrder([k \in 1..Len(WithIMEI(records)) |->
                                      TargetNumber(WithIMEI(records)[k])])
        changed == SelectSeq(numbers,
                       LAMBDA n : Len(IMEIDataOf(WithIMEI(records), n)) > 1)
        imeiChangeResults ==
            [k \in 1..Len(changed) |->
                IMEIResult(changed[k],
                           SortedIMEIs(IMEIDataOf(WithIMEI(records), changed[k])))]
        sorted == SortByKeyDesc(imeiChangeResults, TotalChangesOf)
    IN  SubSeq(sorted, 1, IF Len(sorted) < IMEILimit THEN Len(sorted)
                          ELSE IMEILimit)

(***************************************************************************)
(* normalizeColumnNames.  A raw row is the sequence of its cells in column *)
(* order, each a header and a value; an empty cell of the sheet is absent  *)
(* from its row.  Headers are texts that name no property inherited from   *)
(* Object.prototype.                                                       *)
(***************************************************************************)
Cell(key, value) == [key |-> key, value |-> value]

\* Object.keys(row)
Keys(row) == [i \in 1..Len(row) |-> row[i].key]

HasKey(row, key) == \E i \in 1..Len(row) : row[i].key = key

\* row[key]
Get(row, key) ==
    IF HasKey(row, key)
    THEN row[CHOOSE i \in 1..Len(row) : row[i].key = key].value
    ELSE Undef

\* row[key] = value: an existing key keeps its place, a new one goes last.
Set(row, key, value) ==
    IF HasKey(row, key)
    THEN [i \in 1..Len(row) |-> IF row[i].key = key THEN Cell(key, value) ELSE row[i]]
    ELSE Append(row, Cell(key, value))

A_PARTY == <<"A", "-", "P", "a", "r", "t", "y">>
B_PARTY == <<"B", "-", "P", "a", "r", "t", "y">>
CALL_TYPE == <<"C", "a", "l", "l", " ", "T", "y", "p", "e">>
DATE_AND_TIME == <<"D", "a", "t", "e", " ", "A", "n", "d", " ", "T", "i", "m", "e">>
IMEI == <<"I", "M", "E", "I">>
IMSI == <<"I", "M", "S", "I">>
DURATION == <<"D", "u", "r", "a", "t", "i", "o", "n">>
CELL_ID == <<"C", "e", "l", "l", " ", "I", "D">>
SITE_LOCATION == <<"S", "i", "t", "e", "L", "o", "c", "a", "t", "i", "o", "n">>

\* No canonical name: the null of detectColumnType and the undefined of a
\* lookup, both falsy.
NoType == <<>>

\* The exact-name table, as header and canonical name.
exactMapping ==
    << <<A_PARTY, A_PARTY>>, <<B_PARTY, B_PARTY>>,
       <<CALL_TYPE, CALL_TYPE>>, <<DATE_AND_TIME, DATE_AND_TIME>>,
       <<IMEI, IMEI>>, <<IMSI, IMSI>>, <<DURATION, DURATION>>,
       <<CELL_ID, CELL_ID>>, <<SITE_LOCATION, SITE_LOCATION>>,
       <<<<"A", "p", "a", "r", "t", "y">>, A_PARTY>>, <<<<"a", "p", "a", "r", "t", "y">>, A_PARTY>>, <<<<"A", "_", "P", "a", "r", "t", "y">>, A_PARTY>>, <<<<"A", "P", "a", "r", "t", "y">>, A_PARTY>>,
       <<<<"B", "P", "a", "r", "t", "y">>, B_PARTY>>, <<<<"b", "p", "a", "r", "t", "y">>, B_PARTY>>, <<<<"B", "_", "P", "a", "r", "t", "y">>, B_PARTY>>,
       <<<<"C", "u", "s", "t", "o", "m", "e", "r", " ", "M", "s", "i", "s", "d", "n">>, B_PARTY>>, <<<<"c", "u", "s", "t", "o", "m", "e", "r", " ", "m", "s", "i", "s", "d", "n">>, B_PARTY>>, <<<<"C", "u", "s", "t", "o", "m", "e", "r", " ", "M", "S", "I", "S", "D", "N">>, B_PARTY>>,
       <<<<"M", "s", "i", "s", "d", "n">>, B_PARTY>>, <<<<"m", "s", "i", "s", "d", "n">>, B_PARTY>>, <<<<"M", "S", "I", "S", "D", "N">>, B_PARTY>>,
       <<<<"C", "u", "s", "t", "o", "m", "e", "r", " ", "N", "u", "m", "b", "e", "r">>, B_PARTY>>, <<<<"c", "u", "s", "t", "o", "m", "e", "r", " ", "n", "u", "m", "b", "e", "r">>, B_PARTY>>,
       <<<<"D", "a", "t", "e", "t", "i", "m", "e">>, DATE_AND_TIME>>, <<<<"d", "a", "t", "e", "t", "i", "m", "e">>, DATE_AND_TIME>>, <<<<"D", "a", "t", "e", "T", "i", "m", "e">>, DATE_AND_TIME>>,
       <<<<"C", "a", "l", "l", "T", "y", "p", "e">>, CALL_TYPE>>, <<<<"c", "a", "l", "l", "t", "y", "p", "e">>, CALL_TYPE>>, <<<<"c", "a", "l", "l", "_", "t", "y", "p", "e">>, CALL_TYPE>>,
       <<<<"I", "m", "e", "i">>, IMEI>>, <<<<"i", "m", "e", "i">>, IMEI>>, <<<<"I", "m", "s", "i">>, IMSI>>, <<<<"i", "m", "s", "i">>, IMSI>>,
       <<<<"c", "e", "l", "l", "i", "d">>, CELL_ID>>, <<<<"C", "e", "l", "l", "I", "D">>, CELL_ID>>, <<<<"c", "e", "l", "l", "_", "i", "d">>, CELL_ID>>,
       <<<<"d", "u", "r", "a", "t", "i", "o", "n">>, DURATION>>, <<<<"L", "o", "c", "a", "t", "i", "o", "n">>, SITE_LOCATION>>, <<<<"l", "o", "c", "a", "t", "i", "o", "n">>, SITE_LOCATION>> >>

\* exactMapping[key]
ExactType(key) ==
    IF \E i \in 1..Len(exactMapping) : exactMapping[i][1] = key
    THEN exactMapping[CHOOSE i \in 1..Len(exactMapping) : exactMapping[i][1] = key][2]
    ELSE NoType

SampleRows == 10
SampleValues == 5

\* sampleValues.filter(v => v !== null && v !== undefined && v !== '').slice(0, 5)
nonEmptyValues(sampleValues) ==
    LET kept == SelectSeq(sampleValues,
                    LAMBDA v : v.t \notin {"null", "undef"} /\ v # Str(<<>>))
    IN  SubSeq(kept, 1, IF Len(kept) < SampleValues THEN Len(kept) ELSE SampleValues)

\* /^[0-9+\-\s()]{8,20}$/.test(s)
phonePattern(s) ==
    /\ Len(s) >= 8 /\ Len(s) <= 20
    /\ \A i \in 1..Len(s) :
           IsDigit(s[i]) \/ IsSpace(s[i]) \/ s[i] \in {"+", "-", "(", ")"}

\* /^[0-9E\+\-\.]{12,20}$/.test(s)
imeiPattern(s) ==
    /\ Len(s) >= 12 /\ Len(s) <= 20
    /\ \A i \in 1..Len(s) : IsDigit(s[i]) \/ s[i] \in {"E", "+", "-", "."}

\* !isNaN(Number(v)) && Number(v) >= 0 for a number, or for a text that is
\* blank or an optional sign, digits and an optional fraction.
NonNegativeNumber(v) ==
    CASE v.t = "num" -> v.n >= 0
      [] v.t = "str" ->
            LET t == Trim(v.s)
                u == Unsigned(t)
                dots == { i \in 1..Len(u) : u[i] = "." }
            IN  \/ t = <<>>
                \/ /\ \A i \in 1..Len(u) : IsDigit(u[i]) \/ u[i] = "."
                   /\ Cardinality(dots) <= 1
                   /\ \E i \in 1..Len(u) : IsDigit(u[i])
                   /\ Sign(t) = -1 => \A i \in 1..Len(u) : u[i] \in {"0", "."}
      [] OTHER -> FALSE

hasPhoneNumbers(values) ==
    \E i \in 1..Len(values) : phonePattern(JsString(values[i]))

isDateLike(values) ==
    \E i \in 1..Len(values) :
        \/ values[i].t = "num" /\ values[i].n > 40000 /\ values[i].n < 50000
        \/ ~IsNaN(DateParse(JsString(values[i])))

hasIMEI(values) ==
    \E i \in 1..Len(values) :
        LET str == JsString(values[i])
        IN  /\ Len(str) >= 12
            /\ \E k \in 1..Len(str) : IsDigit(str[k])
            /\ (Includes(str, <<"E", "+">>) \/ imeiPattern(str))

hasCallTypes(values) ==
    \E i \in 1..Len(values) :
        LET str == ToLowerCase(JsString(values[i]))
        IN  \/ Includes(str, <<"c", "a", "l", "l">>) \/ Includes(str, <<"s", "m", "s">>)
            \/ Includes(str, <<"i", "n", "c", "o", "m", "i", "n", "g">>) \/ Includes(str, <<"o", "u", "t", "g", "o", "i", "n", "g">>)

hasDuration(values) ==
    \A i \in 1..Len(values) : NonNegativeNumber(values[i])

hasLocation(values) ==
    \E i \in 1..Len(values) :
        Includes(JsString(values[i]), <<"|">>) \/ Len(JsString(values[i])) > 10

isMsisdnColumn(name) ==
    Includes(name, <<"m", "s", "i", "s", "d", "n">>) \/ Includes(name, <<"c", "u", "s", "t", "o", "m", "e", "r">>) \/ Includes(name, <<"s", "u", "b", "s", "c", "r", "i", "b", "e", "r">>)

\* The branch for a column of phone numbers; NoType when it falls through.
PhoneColumnType(name) ==
    IF \/ Includes(name, <<"a">>) \/ Includes(name, <<"c", "a", "l", "l", "e", "r">>)
       \/ Includes(name, <<"s", "o", "u", "r", "c", "e">>) \/ Includes(name, <<"f", "r", "o", "m">>)
    THEN A_PARTY
    ELSE IF \/ Includes(name, <<"b">>) \/ Includes(name, <<"c", "a", "l", "l", "e", "d">>)
            \/ Includes(name, <<"d", "e", "s", "t">>) \/ Includes(name, <<"t", "o">>)
            \/ Includes(name, <<"c", "u", "s", "t", "o", "m", "e", "r">>) \/ Includes(name, <<"m", "s", "i", "s", "d", "n">>)
            \/ Includes(name, <<"s", "u", "b", "s", "c", "r", "i", "b", "e", "r">>)
    THEN B_PARTY
    ELSE IF phonePattern(name) THEN A_PARTY
    ELSE IF isMsisdnColumn(name) THEN B_PARTY
    ELSE NoType

\* The checks that follow the phone branch.
OtherColumnType(name, values) ==
    IF isDateLike(values) /\ (Includes(name, <<"d", "a", "t", "e">>) \/ Includes(name, <<"t", "i", "m", "e">>))
    THEN DATE_AND_TIME
    ELSE IF hasIMEI(values) /\ (Includes(name, <<"i", "m", "e", "i">>) \/ Includes(name, <<"d", "e", "v", "i", "c", "e">>))
    THEN IMEI
    ELSE IF hasCallTypes(values) /\ (Includes(name, <<"t", "y", "p", "e">>) \/ Includes(name, <<"c", "a", "l", "l">>))
    THEN CALL_TYPE
    ELSE IF hasDuration(values) /\ (Includes(name, <<"d", "u", "r", "a", "t", "i", "o", "n">>) \/ Includes(name, <<"t", "i", "m", "e">>))
    THEN DURATION
    ELSE IF hasLocation(values)
            /\ (Includes(name, <<"l", "o", "c", "a", "t", "i", "o", "n">>) \/ Includes(name, <<"s", "i", "t", "e">>) \/ Includes(name, <<"c", "e", "l", "l">>))
    THEN SITE_LOCATION
    ELSE NoType

detectColumnType(columnName, sampleValues) ==
    LET name == ToLowerCase(columnName)
        values == nonEmptyValues(sampleValues)
    IN  IF /\ hasPhoneNumbers(values) \/ phonePattern(name) \/ isMsisdnColumn(name)
           /\ PhoneColumnType(name) # NoType
        THEN PhoneColumnType(name)
        ELSE OtherColumnType(name, values)

\* sampleData.map(row => row[originalKey])
SampleOf(data, key) ==
    [i \in 1..(IF Len(data) < SampleRows THEN Len(data) ELSE SampleRows) |->
        Get(data[i], key)]

\* The type of a key of the first row: the exact one if there is one, else
\* the detected one.
ExactOrDetected(exact, data, key) ==
    IF exact # NoType THEN exact
    ELSE detectColumnType(key, SampleOf(data, key))

\* columnTypes after the two passes over Object.keys(data[0]): the keys of
\* the first row, each with its type.
ColumnTypes(data) ==
    [k \in 1..Len(data[1]) |->
        [key |-> data[1][k].key,
         type |-> ExactOrDetected(ExactType(data[1][k].key), data, data[1][k].key)]]

\* columnTypes[originalKey] || originalKey
NormalizedKey(columnTypes, key) ==
    IF \E k \in 1..Len(columnTypes) :
           columnTypes[k].key = key /\ columnTypes[k].type # NoType
    THEN columnTypes[CHOOSE k \in 1..Len(columnTypes) : columnTypes[k].key = key].type
    ELSE key

\* The normalized row built from the cells of one row, in order.
RECURSIVE NormalizeCells(_, _)
NormalizeCells(columnTypes, cells) ==
    IF cells = <<>> THEN <<>>
    ELSE Set(NormalizeCells(columnTypes, Front(cells)),
             NormalizedKey(columnTypes, Last(cells).key), Last(cells).value)

\* data.map(row => ...) with the column types found.
RenameColumns(data, columnTypes) ==
    [i \in 1..Len(data) |-> NormalizeCells(columnTypes, data[i])]

normalizeColumnNames(data) ==
    IF Len(data) = 0 THEN data
    ELSE RenameColumns(data, ColumnTypes(data))

\* The columns of the sheets, in column order: the name of the cell in a
\* sheet row and the header text.
Columns ==
    << <<"A-Party", A_PARTY>>, <<"B-Party", B_PARTY>>, <<"IMEI", IMEI>>,
       <<"Call Type", CALL_TYPE>>, <<"Duration", DURATION>>,
       <<"Date And Time", DATE_AND_TIME>>, <<"Date", <<"D", "a", "t", "e">>>>, <<"Time", <<"T", "i", "m", "e">>>>,
       <<"SiteLocation", SITE_LOCATION>>, <<"Latitude", <<"L", "a", "t", "i", "t", "u", "d", "e">>>>,
       <<"Longitude", <<"L", "o", "n", "g", "i", "t", "u", "d", "e">>>> >>

\* xlsx.utils.sheet_to_json on one sheet row: the cells that are not empty,
\* in column order.
SheetRow(row) ==
    SelectSeq([i \in 1..Len(Columns) |-> Cell(Columns[i][2], row[Columns[i][1]])],
              LAMBDA c : c.value # Undef)

\* The cells the parser reads in a normalized row.
ReadFields(normalizedRow) ==
    [f \in Fields |->
        Get(normalizedRow, Columns[CHOOSE i \in 1..Len(Columns) : Columns[i][1] = f][2])]

\* data = normalizeColumnNames(xlsx.utils.sheet_to_json(worksheet))
ReadRows(data) == [i \in 1..Len(data) |-> ReadFields(data[i])]

NormalizedRows(rows) ==
    ReadRows(normalizeColumnNames([i \in 1..Len(rows) |-> SheetRow(rows[i])]))

(***************************************************************************)
(* parseExcelToCDR on a file.  A file is absent from the request           *)
(* ("none"), a workbook xlsx.read rejects ("unreadable"), or a sheet: its  *)
(* rows, each with the cells of its columns (Undef for an empty cell).     *)
(***************************************************************************)
NoFile == [kind |-> "none", rows |-> <<>>]
Unreadable == [kind |-> "unreadable", rows |-> <<>>]
Sheet(rows) == [kind |-> "sheet", rows |-> rows]

\* .filter(record => record.callerNumber)
DropEmptyCaller(records) == SelectSeq(records, LAMBDA r : r.callerNumber # <<>>)

\* The local variable data of parseExcelToCDR once the columns are
\* normalized; empty when xlsx.read has thrown.
DataOf(file) ==
    IF file.kind = "sheet" THEN NormalizedRows(file.rows) ELSE <<>>

\* The outcome of parseExcelToCDR: it threw, or the records it returns.
ParseNormalized(data, uploadId, now, rnd) ==
    IF \E i \in 1..Len(data) : DateTimeThrows(data[i])
    THEN [threw |-> TRUE, records |-> <<>>]
    ELSE [threw |-> FALSE,
          records |-> DropEmptyCaller(
              [i \in 1..Len(data) |-> ParseRow(data[i], uploadId, now, rnd)])]

\* The parse of a file whose normalized rows are data.
ParseData(file, data, uploadId, now, rnd) ==
    IF file.kind = "unreadable" THEN [threw |-> TRUE, records |-> <<>>]
    ELSE ParseNormalized(data, uploadId, now, rnd)

parseExcelToCDR(file, uploadId, now, rnd) ==
    ParseData(file, DataOf(file), uploadId, now, rnd)

\* Math.random() is called for a row whose timestamp is not read from its
\* cells: no Date And Time and no Date + Time pair, or an invalid result.
DrawsRandom(row, now) ==
    \/ Falsy(row["Date And Time"]) /\ (Falsy(row["Date"]) \/ Falsy(row["Time"]))
    \/ IsNaN(RawTimestamp(row, now, NoDraw))

DataDraws(data, now) ==
    IF /\ \A i \in 1..Len(data) : ~DateTimeThrows(data[i])
       /\ \E i \in 1..Len(data) : DrawsRandom(data[i], now)
    THEN RandomDraws
    ELSE {NoDraw}

\* The draws a parse of the file can take.
FileDraws(file, data, now) ==
    IF file.kind = "sheet" THEN DataDraws(data, now) ELSE {NoDraw}

Draws(file, now) == FileDraws(file, DataOf(file), now)

(***************************************************************************)
(* MemStorage and the POST /api/upload handler.                            *)
(***************************************************************************)
VARIABLES
    inbox,            \* the files the clients post, one request each
    fileUploads,      \* MemStorage.fileUploads: upload id -> entry
    cdrRecords,       \* MemStorage.cdrRecords, in insertion order
    analysisResults,  \* MemStorage.analysisResults, by uploadId
    req,              \* the state of each request's handler
    served,           \* the last answer of GET /api/number-analysis/:number
    trial             \* a direct call of one function: name, argument, result

vars == <<inbox, fileUploads, cdrRecords, analysisResults, req, served, trial>>

\* Date.now()
Now == DaysFromCivil(2025, 6, 15) * SecondsPerDay + 12 * 3600

\* The analysis types in the order the handler stores them.
AnalysisOrder ==
    << "fileStats", "topCallNumbers", "topTalkTimeNumbers", "topOutgoingTalkTime",
       "topIncomingTalkTime", "topSmsSentNumbers", "topSmsReceivedNumbers",
       "topOutgoingCalls", "topIncomingCalls", "topOutgoingSMS", "topIncomingSMS",
       "locationAnalysis", "movementPatterns", "detailedLocationTimeline",
       "imeiChanges" >>

\* The result of analyzeLocationPatterns is stored but not interpreted.
Uninterpreted == <<"uninterpreted">>

\* All analyses of a record list, by analysis type.
Analyses(records) ==
    [fileStats |-> generateFileStats(records),
     topCallNumbers |-> analyzeTopNumbers(records, "calls"),
     topTalkTimeNumbers |-> analyzeTopNumbers(records, "duration"),
     topOutgoingTalkTime |-> TalkTime(analyzeOutgoingCalls(records), records),
     topIncomingTalkTime |-> TalkTime(analyzeIncomingCalls(records), records),
     topSmsSentNumbers |-> analyzeTopNumbers(records, "sms_sent"),
     topSmsReceivedNumbers |-> analyzeTopNumbers(records, "sms_received"),
     topOutgoingCalls |-> analyzeOutgoingCalls(records),
     topIncomingCalls |-> analyzeIncomingCalls(records),
     topOutgoingSMS |-> analyzeOutgoingSMS(records),
     topIncomingSMS |-> analyzeIncomingSMS(records),
     locationAnalysis |-> Uninterpreted,
     movementPatterns |-> analyzeMovementPatterns(records),
     detailedLocationTimeline |-> analyzeDetailedLocationTimeline(records),
     imeiChanges |-> analyzeIMEIChanges(records)]

NoAnalyses == [t \in {AnalysisOrder[i] : i \in 1..Len(AnalysisOrder)} |-> <<>>]

IdleRequest ==
    [pc |-> "idle", uploadId |-> 0, data |-> <<>>, cdrRecords |-> <<>>,
     analysis |-> NoAnalyses, stored |-> 0, status |-> 0]

\* storage.createFileUpload: a fresh id (randomUUID) and the new entry.
NewUploadId(uploads) == Cardinality(DOMAIN uploads) + 1

createFileUpload(uploads, processingStatus) ==
    [id \in DOMAIN uploads \cup {NewUploadId(uploads)} |->
        IF id \in DOMAIN uploads THEN uploads[id]
        ELSE [processingStatus |-> processingStatus,
              totalRecords |-> Null, uniqueNumbers |-> Null]]

\* A variant of updateFileUpload that leaves the entry as it is.
UpdateNothing(uploads, id, processingStatus) == uploads

\* storage.updateFileUpload(id, { processingStatus })
updateFileUpload(uploads, id, processingStatus) ==
    IF id \in DOMAIN uploads
    THEN [uploads EXCEPT ![id].processingStatus = processingStatus]
    ELSE uploads

\* storage.updateFileUpload(id, { processingStatus: "completed", ... })
completeFileUpload(uploads, id, totalRecords, uniqueNumbers) ==
    IF id \in DOMAIN uploads
    THEN [uploads EXCEPT ![id] = [processingStatus |-> "completed",
                                  totalRecords |-> Num(totalRecords),
                                  uniqueNumbers |-> Num(uniqueNumbers)]]
    ELSE uploads

\* storage.createCDRRecords
createCDRRecords(stored, records) == stored \o records

\* storage.createAnalysisResult.  The store's results are held grouped by
\* uploadId, each group in insertion order (the ids of the Map are random
\* and every reader filters by uploadId).
createAnalysisResult(stored, uploadId, analysisType, results) ==
    [stored EXCEPT ![uploadId] =
        Append(@, [uploadId |-> uploadId, analysisType |-> analysisType,
                   results |-> results])]

Requests == DOMAIN req

\* No direct call is made.
NoTrial == [fn |-> "none", arg |-> Null, done |-> FALSE, out |-> Null]

\* No number analysis has been served yet.
NotServed == [number |-> <<>>, status |-> 0, body |-> Null]

\* decodeURIComponent(number) of a text without escape sequences.
DecodeURIComponent(number) == number

\* The answer of GET /api/number-analysis/:number: null when the store holds
\* no record, else the profile of the number over all the stored records.
NumberAnalysis(stored, number) ==
    IF Len(stored) = 0 THEN Null
    ELSE analyzeSpecificNumber(stored, DecodeURIComponent(number))

\* if (!req.file) return res.status(400)
UploadNoFile(r) ==
    /\ req[r].pc = "idle"
    /\ inbox[r].kind = "none"
    /\ req' = [req EXCEPT ![r].pc = "done", ![r].status = 400]
    /\ UNCHANGED <<trial, served, inbox, fileUploads, cdrRecords, analysisResults>>

\* await storage.createFileUpload({ ..., processingStatus: "processing" })
UploadCreate(r) ==
    /\ req[r].pc = "idle"
    /\ inbox[r].kind # "none"
    /\ fileUploads' = createFileUpload(fileUploads, "processing")
    /\ req' = [req EXCEPT ![r].pc = "created",
                          ![r].uploadId = NewUploadId(fileUploads)]
    /\ UNCHANGED <<trial, served, inbox, cdrRecords, analysisResults>>

\* parseExcelToCDR throws: the catch block answers 500.
ThrowsOn(r, data) ==
    /\ \E rnd \in FileDraws(inbox[r], data, Now) :
           ParseData(inbox[r], data, req[r].uploadId, Now, rnd).threw
    /\ req' = [req EXCEPT ![r].pc = "done", ![r].status = 500, ![r].data = data]

UploadParseThrows(r) ==
    /\ req[r].pc = "created"
    /\ ThrowsOn(r, DataOf(inbox[r]))
    /\ UNCHANGED <<trial, served, inbox, fileUploads, cdrRecords, analysisResults>>

\* The parse returned an empty list, or a list with records.
NoRecords(parsed) == ~parsed.threw /\ Len(parsed.records) = 0
SomeRecords(parsed) == ~parsed.threw /\ Len(parsed.records) # 0

\* cdrRecords.length === 0: await storage.updateFileUpload(id, "failed")
EmptyOn(r, data) ==
    /\ \E rnd \in FileDraws(inbox[r], data, Now) :
           NoRecords(ParseData(inbox[r], data, req[r].uploadId, Now, rnd))
    /\ req' = [req EXCEPT ![r].pc = "failing", ![r].data = data]

UploadParseEmpty(r) ==
    /\ req[r].pc = "created"
    /\ EmptyOn(r, DataOf(inbox[r]))
    /\ fileUploads' = updateFileUpload(fileUploads, req[r].uploadId, "failed")
    /\ UNCHANGED <<trial, served, inbox, cdrRecords, analysisResults>>

\* return res.status(400).json({ message: "No valid CDR records ..." })
UploadReject(r) ==
    /\ req[r].pc = "failing"
    /\ req' = [req EXCEPT ![r].pc = "done", ![r].status = 400]
    /\ UNCHANGED <<trial, served, inbox, fileUploads, cdrRecords, analysisResults>>

\* await storage.createCDRRecords(cdrRecords)
StoreParsed(r, data, parsed) ==
    /\ SomeRecords(parsed)
    /\ cdrRecords' = createCDRRecords(cdrRecords, parsed.records)
    /\ req' = [req EXCEPT ![r].pc = "stored", ![r].cdrRecords = parsed.records,
                          ![r].data = data]

StoreOn(r, data) ==
    \E rnd \in FileDraws(inbox[r], data, Now) :
        StoreParsed(r, data, ParseData(inbox[r], data, req[r].uploadId, Now, rnd))

UploadStoreRecords(r) ==
    /\ req[r].pc = "created"
    /\ StoreOn(r, DataOf(inbox[r]))
    /\ UNCHANGED <<trial, served, inbox, fileUploads, analysisResults>>

\* All analyses are computed, then the first result is stored.
UploadAnalyze(r) ==
    /\ req[r].pc = "stored"
    /\ LET analysis == Analyses(req[r].cdrRecords)
       IN  /\ analysisResults' = createAnalysisResult(analysisResults,
                   req[r].uploadId, AnalysisOrder[1], analysis[AnalysisOrder[1]])
           /\ req' = [req EXCEPT ![r].pc = "results", ![r].analysis = analysis,
                                 ![r].stored = 1]
    /\ UNCHANGED <<trial, served, inbox, fileUploads, cdrRecords>>

\* await storage.createAnalysisResult(...), the second to the last.
UploadStoreResult(r) ==
    /\ req[r].pc = "results"
    /\ req[r].stored < Len(AnalysisOrder)
    /\ LET type == AnalysisOrder[req[r].stored + 1]
       IN  analysisResults' = createAnalysisResult(analysisResults,
               req[r].uploadId, type, req[r].analysis[type])
    /\ req' = [req EXCEPT ![r].stored = @ + 1]
    /\ UNCHANGED <<trial, served, inbox, fileUploads, cdrRecords>>

\* await storage.updateFileUpload(id, { processingStatus: "completed", ... })
UploadComplete(r) ==
    /\ req[r].pc = "results"
    /\ req[r].stored = Len(AnalysisOrder)
    /\ fileUploads' = completeFileUpload(fileUploads, req[r].uploadId,
                          Len(req[r].cdrRecords),
                          req[r].analysis.fileStats.uniqueNumbers)
    /\ req' = [req EXCEPT ![r].pc = "completing"]
    /\ UNCHANGED <<trial, served, inbox, cdrRecords, analysisResults>>

\* res.json({ message: "File processed successfully", ... })
UploadRespond(r) ==
    /\ req[r].pc = "completing"
    /\ req' = [req EXCEPT ![r].pc = "done", ![r].status = 200]
    /\ UNCHANGED <<trial, served, inbox, fileUploads, cdrRecords, analysisResults>>

\* GET /api/number-analysis/:number
GetNumberAnalysis(number) ==
    /\ served' = [number |-> number, status |-> 200,
                  body |-> NumberAnalysis(cdrRecords, number)]
    /\ UNCHANGED <<trial, inbox, fileUploads, cdrRecords, analysisResults, req>>

Next ==
    \/ \E r \in Requests : UploadNoFile(r)
    \/ \E r \in Requests : UploadCreate(r)
    \/ \E r \in Requests : UploadParseThrows(r)
    \/ \E r \in Requests : UploadParseEmpty(r)
    \/ \E r \in Requests : UploadReject(r)
    \/ \E r \in Requests : UploadStoreRecords(r)
    \/ \E r \in Requests : UploadAnalyze(r)
    \/ \E r \in Requests : UploadStoreResult(r)
    \/ \E r \in Requests : UploadComplete(r)
    \/ \E r \in Requests : UploadRespond(r)

\* The state after construction, given the files the clients will post.
InitWith(files) ==
    /\ inbox = files
    /\ fileUploads = <<>>
    /\ cdrRecords = <<>>
    /\ analysisResults = [id \in 1..Len(files) |-> <<>>]
    /\ req = [r \in 1..Len(files) |-> IdleRequest]
    /\ served = NotServed
    /\ trial = NoTrial

\* The state after construction, given the direct call to make: no file is
\* posted.
InitTrial(fn, arg) ==
    /\ inbox = <<>>
    /\ fileUploads = <<>>
    /\ cdrRecords = <<>>
    /\ analysisResults = <<>>
    /\ req = <<>>
    /\ served = NotServed
    /\ trial = [fn |-> fn, arg |-> arg, done |-> FALSE, out |-> Null]

\* The direct call returns.
Return(fn, out) ==
    /\ trial.fn = fn
    /\ ~trial.done
    /\ trial' = [trial EXCEPT !.done = TRUE, !.out = out]
    /\ UNCHANGED <<inbox, fileUploads, cdrRecords, analysisResults, req, served>>

(***************************************************************************)
(* The inputs: cells, rows and files.                                      *)
(***************************************************************************)
EmptyRow == [f \in Fields |-> Undef]

\* A serial day number beyond the range of Date.
HugeSerial == MaxDateDays + 25569 + 1

CallerCells ==
    { Undef, Str(<<>>), Str(<<" ">>), Str(<<"0", "3", "0", "1">>), Str(<<" ", "0", "3", "0", "1", " ">>), Str(<<"0", "3", "0", "2">>),
      Num(3001), Num(0) }

CalledCells == { Undef, Str(<<"0", "4", "0", "0">>), Str(<<"0", "4", "0", "1">>) }

CallTypeCells ==
    { Undef, Str(<<>>), Num(5),
      Str(<<"S", "M", "S", " ", "O", "u", "t", "g", "o", "i", "n", "g">>), Str(<<"I", "n", "c", "o", "m", "i", "n", "g", " ", "S", "M", "S">>), Str(<<"M", "T">>), Str(<<"M", "O">>),
      Str(<<"V", "o", "i", "c", "e">>), Str(<<"X", "Y", "Z">>), Str(<<" ", "s", "m", "s", " ", "o", "u", "t", "g", "o", "i", "n", "g", " ">>), Str(<<"I", "N", "C", "O", "M", "I", "N", "G", " ", "s", "m", "s">>),
      Str(<<" ", "m", "t", " ">>), Str(<<"m", "o">>), Str(<<"V", "O", "I", "C", "E">>), Str(<<"x", "y", "z">>),
      Str(<<"o", "u", "t", "g", "o", "i", "n", "g">>), Str(<<"I", "n", "c", "o", "m", "i", "n", "g">>), Str(<<"M", "e", "s", "s", "a", "g", "e">>), Str(<<"C", "a", "l", "l", " ", "T", "e", "r", "m", "i", "n", "a", "t", "e", "d">>),
      Str(<<"V", "o", "i", "c", "e", " ", "O", "r", "i", "g", "i", "n", "a", "t", "e", "d">>), Str(<<"C", "a", "l", "l", " ", "O", "r", "i", "g", "i", "n", "a", "t", "e", "d">>) }

DurationCells ==
    { Undef, Str(<<>>), Str(<<"6", "0">>), Str(<<"-", "5">>), Str(<<"a", "b", "c">>), Str(<<"1", "2", "a", "b", "c">>),
      Num(120), Num(0), Num(-7) }

DateAndTimeCells ==
    { Undef, Str(<<"2", "0", "2", "4", "-", "0", "1", "-", "1", "5", " ", "1", "0", ":", "3", "0", ":", "0", "0">>), Str(<<"g", "a", "r", "b", "a", "g", "e">>), Str(<<"1", "5", "-", "0", "1", "-", "2", "0", "2", "4">>),
      Str(<<"2", "0", "1", "0", "-", "0", "6", "-", "1", "5", " ", "1", "0", ":", "3", "0", ":", "0", "0">>), Str(<<"2", "0", "0", "9", "-", "0", "6", "-", "1", "5", " ", "1", "0", ":", "3", "0", ":", "0", "0">>),
      Num(45000), Num(0), Num(HugeSerial) }

DateCells ==
    { Undef, Str(<<"2", "0", "2", "4", "-", "0", "1", "-", "1", "5">>), Str(<<"g", "a", "r", "b", "a", "g", "e">>), Num(45000), Num(HugeSerial) }

TimeCells == { Undef, Str(<<"1", "0", ":", "3", "0", ":", "0", "0">>), Str(<<"g", "a", "r", "b", "a", "g", "e">>) }

SiteLocationCells ==
    { Undef, Str(<<"T", "o", "w", "e", "r", " ", "B">>), Str(<<" ", "T", "o", "w", "e", "r", " ", "B", " ">>), Str(<<"T", "o", "w", "e", "r", " ", "A", "|", "2", "4", ".", "8", "6", "|", "6", "7", ".", "0", "1">>),
      Str(<<"T", "o", "w", "e", "r", " ", "A", "|", "x", "|", "6", "7", ".", "0", "1">>), Str(<<"A", "|", "B">>) }

LatitudeCells == { Undef, Str(<<"2", "4", ".", "8", "6">>), Str(<<"a", "b", "c">>), Num(25) }
LongitudeCells == { Undef, Str(<<"6", "7", ".", "0", "1">>), Num(67) }

\* Rows for the parser: every caller cell alone, and every combination of
\* the cells of one group of fields with a present and an absent caller.
ParseRows ==
    LET base == { [EmptyRow EXCEPT !["A-Party"] = a] : a \in {Undef, Str(<<"0", "3", "0", "1">>)} }
    IN  { [EmptyRow EXCEPT !["A-Party"] = a] : a \in CallerCells }
        \cup { [b EXCEPT !["Call Type"] = c] : b \in base, c \in CallTypeCells }
        \cup { [b EXCEPT !["Duration"] = d] : b \in base, d \in DurationCells }
        \cup { [b EXCEPT !["Date And Time"] = dt, !["Date"] = d, !["Time"] = t] :
                   b \in base, dt \in DateAndTimeCells, d \in DateCells, t \in TimeCells }
        \cup { [b EXCEPT !["SiteLocation"] = l, !["Latitude"] = la, !["Longitude"] = lo] :
                   b \in base, l \in SiteLocationCells, la \in LatitudeCells,
                   lo \in LongitudeCells }

\* A row the parser accepts whatever it is combined with.
PlainRow ==
    [EmptyRow EXCEPT !["A-Party"] = Str(<<"0", "3", "0", "2">>), !["B-Party"] = Str(<<"0", "4", "0", "0">>),
                     !["Date And Time"] = Num(45000)]

\* Files for the parser: no file, an unreadable one, an empty sheet, every
\* one-row sheet, and every row after a plain row.
ParseFiles ==
    { NoFile, Unreadable, Sheet(<<>>) }
        \cup { Sheet(<<row>>) : row \in ParseRows }
        \cup { Sheet(<<PlainRow, row>>) : row \in ParseRows }

\* Rows for the rankings: one caller, two called numbers, the four kinds of
\* traffic, a row without called number and a row without caller.
RankRow(a, b, callType, duration, serial) ==
    [EmptyRow EXCEPT !["A-Party"] = a, !["B-Party"] = b, !["Call Type"] = callType,
                     !["Duration"] = duration, !["Date And Time"] = Num(serial)]

RankRows ==
    { RankRow(Str(<<"0", "3", "0", "1">>), Str(<<"0", "4", "0", "0">>), Str(<<"o", "u", "t", "g", "o", "i", "n", "g">>), Str(<<"1">>), 45000),
      RankRow(Str(<<"0", "3", "0", "1">>), Str(<<"0", "4", "0", "1">>), Str(<<"o", "u", "t", "g", "o", "i", "n", "g">>), Str(<<"1", "0", "0">>), 45000),
      RankRow(Str(<<"0", "3", "0", "1">>), Str(<<"0", "4", "0", "0">>), Str(<<"I", "n", "c", "o", "m", "i", "n", "g">>), Str(<<"5">>), 45001),
      RankRow(Str(<<"0", "3", "0", "1">>), Str(<<"0", "4", "0", "1">>), Str(<<"S", "M", "S", " ", "O", "u", "t", "g", "o", "i", "n", "g">>), Undef, 45001),
      RankRow(Str(<<"0", "3", "0", "1">>), Str(<<"0", "4", "0", "0">>), Str(<<"I", "n", "c", "o", "m", "i", "n", "g", " ", "S", "M", "S">>), Undef, 45000),
      RankRow(Str(<<"0", "3", "0", "1">>), Undef, Str(<<"o", "u", "t", "g", "o", "i", "n", "g">>), Str(<<"a", "b", "c">>), 45000),
      RankRow(Undef, Str(<<"0", "4", "0", "1">>), Str(<<"o", "u", "t", "g", "o", "i", "n", "g">>), Str(<<"7">>), 45000) }

RECURSIVE SeqsUpTo(_, _)
SeqsUpTo(S, n) ==
    IF n = 0 THEN { <<>> }
    ELSE LET shorter == SeqsUpTo(S, n - 1)
         IN  shorter \cup { Append(q, x) : q \in shorter, x \in S }

RankFiles ==
    { NoFile, Unreadable } \cup { Sheet(rows) : rows \in SeqsUpTo(RankRows, MaxRows) }

\* Files for the upload handler and the store: no file, an unreadable one,
\* an empty sheet, a sheet whose only row has no caller, a sheet whose
\* second row has a Date out of range (the Date column is empty in the
\* first row, so it keeps its name), and two sheets of valid rows.
BaseFiles ==
    << NoFile, Unreadable, Sheet(<<>>),
       Sheet(<<[EmptyRow EXCEPT !["B-Party"] = Str(<<"0", "4", "0", "0">>)]>>),
       Sheet(<<PlainRow,
               [PlainRow EXCEPT !["Date And Time"] = Undef,
                         !["Date"] = Num(HugeSerial),
                         !["Time"] = Str(<<"1", "0", ":", "3", "0", ":", "0", "0">>)]>>),
       Sheet(<<PlainRow>>),
       Sheet(<<PlainRow,
               RankRow(Str(<<"0", "3", "0", "1">>), Str(<<"0", "4", "0", "0">>), Str(<<"I", "n", "c", "o", "m", "i", "n", "g", " ", "S", "M", "S">>), Undef, 45001)>>) >>

\* The choices of n different base files.  Requests are interchangeable (the
\* order of their steps is free), so the files are taken in the order of
\* BaseFiles.
BaseChoices(n) ==
    { [i \in 1..n |-> BaseFiles[pick[i]]] :
          pick \in { p \in [1..n -> 1..Len(BaseFiles)] :
                        \A i \in 1..(n - 1) : p[i] < p[i + 1] } }

\* Rows for the number analysis: calls and messages of 0301 with 0400 on
\* three days, and a call to another number.
QueryRows ==
    { RankRow(Str(<<"0", "3", "0", "1">>), Str(<<"0", "4", "0", "0">>), Str(<<"o", "u", "t", "g", "o", "i", "n", "g">>), Str(<<"6", "0">>), 45000),
      RankRow(Str(<<"0", "3", "0", "1">>), Str(<<"0", "4", "0", "0">>), Str(<<"I", "n", "c", "o", "m", "i", "n", "g">>), Str(<<"3", "0">>), 45001),
      RankRow(Str(<<"0", "3", "0", "1">>), Str(<<"0", "4", "0", "0">>), Str(<<"S", "M", "S", " ", "O", "u", "t", "g", "o", "i", "n", "g">>), Undef, 45002),
      RankRow(Str(<<"0", "3", "0", "2">>), Str(<<"0", "4", "0", "1">>), Str(<<"o", "u", "t", "g", "o", "i", "n", "g">>), Str(<<"a", "b", "c">>), 45001) }

\* The sheet of the days with 2, 5 and 1 calls to 0400.
CallsOn(serial, n) ==
    [i \in 1..n |-> RankRow(Str(<<"0", "3", "0", "1">>), Str(<<"0", "4", "0", "0">>), Str(<<"o", "u", "t", "g", "o", "i", "n", "g">>), Str(<<"1", "0">>), serial)]

ThreeDays == Sheet(CallsOn(45000, 2) \o CallsOn(45001, 5) \o CallsOn(45002, 1))

QueryFiles ==
    { Sheet(rows) : rows \in SeqsUpTo(QueryRows, 2) }
        \cup { ThreeDays, NoFile, Unreadable }

\* Two sheets that mention 0400.
SharedFiles ==
    << Sheet(<<RankRow(Str(<<"0", "3", "0", "1">>), Str(<<"0", "4", "0", "0">>), Str(<<"o", "u", "t", "g", "o", "i", "n", "g">>), Str(<<"6", "0">>), 45000)>>),
      Sheet(<<RankRow(Str(<<"0", "3", "0", "2">>), Str(<<"0", "4", "0", "0">>), Str(<<"S", "M", "S", " ", "O", "u", "t", "g", "o", "i", "n", "g">>), Undef, 45001)>>) >>

\* The numbers asked for: a caller, a called number, an absent number.
QueryNumbers == { <<"0", "3", "0", "1">>, <<"0", "4", "0", "0">>, <<"0", "9", "9", "9">> }

\* Records for the direct calls of the analyzers.
RecordOf(caller, called, callType, duration, location, time) ==
    [callerNumber |-> caller, calledNumber |-> called, imei |-> <<>>,
     callType |-> callType, duration |-> Num(duration),
     timestamp |-> Num(time), location |-> location,
     latitude |-> Null, longitude |-> Null, uploadId |-> 1]

Reverse(s) == [i \in 1..Len(s) |-> s[Len(s) + 1 - i]]

\* A trip of a number: calls of type 'call', an hour apart, `stay` calls at
\* each stop, the stops alternating between two towers.
Trip(number, stops, stay) ==
    [i \in 1..(stops * stay) |->
        RecordOf(<<"0", "3", "0", "1">>, number, <<"c", "a", "l", "l">>, 10,
                 IF ((i - 1) \div stay) % 2 = 0 THEN <<"T", "o", "w", "e", "r", " ", "A">> ELSE <<"T", "o", "w", "e", "r", " ", "B">>,
                 Now + i * 3600)]

MaxStops == 17

\* The stops and the calls per stop of the trips of 0400: one call at each
\* of up to MaxStops stops, or two calls at each stop of a short trip.
TripShapes ==
    { <<a, 1>> : a \in 0..MaxStops } \cup { <<a, 2>> : a \in 1..4 }

\* Lists for analyzeMovementPatterns: a trip of 0400 in chronological
\* order, a trip of 0401 in reverse order, and an outgoing call as the
\* parser emits it.
MobilityInputs ==
    { Trip(<<"0", "4", "0", "0">>, shape[1], shape[2]) \o Reverse(Trip(<<"0", "4", "0", "1">>, b, 1))
          \o <<RecordOf(<<"0", "3", "0", "1">>, <<"0", "4", "0", "0">>, CALL_OUTGOING, 10, <<"T", "o", "w", "e", "r", " ", "C">>, Now)>> :
          shape \in TripShapes, b \in 0..4 }

MaxTimeline == 4

\* The kinds of record of the timelines: 0301 calls 0400 at Tower A, takes a
\* call of 0400 at Tower B, texts 0401 at Tower C, gets a text at Tower B
\* without a called number; 0302 calls 0400 at Tower A; 0301 calls without
\* a location.
TimelineKind(kind, time) ==
    CASE kind = 1 -> RecordOf(<<"0", "3", "0", "1">>, <<"0", "4", "0", "0">>, CALL_OUTGOING, 10, <<"T", "o", "w", "e", "r", " ", "A">>, time)
      [] kind = 2 -> RecordOf(<<"0", "3", "0", "1">>, <<"0", "4", "0", "0">>, CALL_INCOMING, 20, <<"T", "o", "w", "e", "r", " ", "B">>, time)
      [] kind = 3 -> RecordOf(<<"0", "3", "0", "1">>, <<"0", "4", "0", "1">>, SMS_SENT, 0, <<"T", "o", "w", "e", "r", " ", "C">>, time)
      [] kind = 4 -> RecordOf(<<"0", "3", "0", "1">>, <<>>, SMS_RECEIVED, 0, <<"T", "o", "w", "e", "r", " ", "B">>, time)
      [] kind = 5 -> RecordOf(<<"0", "3", "0", "2">>, <<"0", "4", "0", "0">>, CALL_OUTGOING, 30, <<"T", "o", "w", "e", "r", " ", "A">>, time)
      [] OTHER -> RecordOf(<<"0", "3", "0", "1">>, <<"0", "4", "0", "0">>, CALL_OUTGOING, 40, <<>>, time)

TimelineKinds == 1..6

\* The time of the i-th record of a list: ninety minutes apart in list
\* order, the same with every record from the third on at one instant, or
\* ninety minutes apart against list order.
TimePatterns == {"ascending", "tied", "descending"}

TimeAt(pattern, i) ==
    Now + 5400 * (CASE pattern = "ascending" -> i
                    [] pattern = "tied" -> IF i < 3 THEN i ELSE 3
                    [] OTHER -> 10 - i)

\* Lists for analyzeDetailedLocationTimeline: up to MaxTimeline records of
\* every kind under every time pattern.
TimelineInputs ==
    { [i \in 1..Len(kinds) |-> TimelineKind(kinds[i], TimeAt(pattern, i))] :
          kinds \in SeqsUpTo(TimelineKinds, MaxTimeline), pattern \in TimePatterns }

MaxDevices == 4

\* The kinds of record of the IMEI lists: 0400 is called from the IMEIs
\* 111 (a call), 222 (a text sent) and 333 (an outgoing call, as the parser
\* writes it) and from no IMEI, 0401 is called from 111, and 0301 gets a
\* text on 222 without a called number.
DeviceKind(kind, time) ==
    CASE kind = 1 -> [RecordOf(<<"0", "3", "0", "1">>, <<"0", "4", "0", "0">>, CALL, 10, <<>>, time) EXCEPT !.imei = <<"1", "1", "1">>]
      [] kind = 2 -> [RecordOf(<<"0", "3", "0", "1">>, <<"0", "4", "0", "0">>, SMS_SENT, 0, <<>>, time) EXCEPT !.imei = <<"2", "2", "2">>]
      [] kind = 3 -> [RecordOf(<<"0", "3", "0", "1">>, <<"0", "4", "0", "0">>, CALL_OUTGOING, 20, <<>>, time) EXCEPT !.imei = <<"3", "3", "3">>]
      [] kind = 4 -> RecordOf(<<"0", "3", "0", "1">>, <<"0", "4", "0", "0">>, CALL, 30, <<>>, time)
      [] kind = 5 -> [RecordOf(<<"0", "3", "0", "2">>, <<"0", "4", "0", "1">>, CALL, 40, <<>>, time) EXCEPT !.imei = <<"1", "1", "1">>]
      [] OTHER -> [RecordOf(<<"0", "3", "0", "1">>, <<>>, SMS_RECEIVED, 0, <<>>, time) EXCEPT !.imei = <<"2", "2", "2">>]

DeviceKinds == 1..6

\* Lists for analyzeIMEIChanges: up to MaxDevices records of every kind
\* under every time pattern.
DeviceInputs ==
    { [i \in 1..Len(kinds) |-> DeviceKind(kinds[i], TimeAt(pattern, i))] :
          kinds \in SeqsUpTo(DeviceKinds, MaxDevices), pattern \in TimePatterns }

MaxHandsetRows == 3

\* Rows with a site and a handset: 0301 calls and texts 0400 from two
\* towers on two IMEIs; a call without site and IMEI, and a call without
\* Call Type.
HandsetRow(callType, duration, serial, site, imei) ==
    [RankRow(Str(<<"0", "3", "0", "1">>), Str(<<"0", "4", "0", "0">>), callType, duration, serial)
        EXCEPT !["SiteLocation"] = site, !["IMEI"] = imei]

HandsetRows ==
    { HandsetRow(Str(<<"o", "u", "t", "g", "o", "i", "n", "g">>), Str(<<"1", "0">>), 45000, Str(<<"T", "o", "w", "e", "r", " ", "A">>), Str(<<"1", "1", "1">>)),
      HandsetRow(Str(<<"I", "n", "c", "o", "m", "i", "n", "g">>), Str(<<"2", "0">>), 45001, Str(<<"T", "o", "w", "e", "r", " ", "B">>), Str(<<"2", "2", "2">>)),
      HandsetRow(Str(<<"o", "u", "t", "g", "o", "i", "n", "g">>), Str(<<"3", "0">>), 45002, Str(<<"T", "o", "w", "e", "r", " ", "B">>), Str(<<"2", "2", "2">>)),
      HandsetRow(Str(<<"S", "M", "S", " ", "O", "u", "t", "g", "o", "i", "n", "g">>), Undef, 45001, Str(<<"T", "o", "w", "e", "r", " ", "A">>), Str(<<"2", "2", "2">>)),
      HandsetRow(Str(<<"I", "n", "c", "o", "m", "i", "n", "g", " ", "S", "M", "S">>), Undef, 45002, Str(<<"T", "o", "w", "e", "r", " ", "A">>), Str(<<"1", "1", "1">>)),
      HandsetRow(Str(<<"o", "u", "t", "g", "o", "i", "n", "g">>), Str(<<"4", "0">>), 45000, Undef, Undef),
      HandsetRow(Undef, Str(<<"5", "0">>), 45003, Str(<<"T", "o", "w", "e", "r", " ", "B">>), Str(<<"1", "1", "1">>)) }

HandsetFiles ==
    { NoFile, Unreadable }
        \cup { Sheet(rows) : rows \in SeqsUpTo(HandsetRows, MaxHandsetRows) }

MaxHours == 12

\* Durations for formatDuration: whole hours up to MaxHours plus 0, 1 or 59
\* minutes and 0, 5 or 59 seconds.
DurationInputs ==
    { h * 3600 + m * 60 + sec : h \in 0..MaxHours, m \in {0, 1, 59}, sec \in {0, 5, 59} }

\* Headers of the exact-name table and headers left to pattern inference.
ExactHeaders == { <<"A", "p", "a", "r", "t", "y">>, A_PARTY, <<"M", "s", "i", "s", "d", "n">>, <<"D", "a", "t", "e", "T", "i", "m", "e">> }

InferredHeaders ==
    { <<"C", "a", "l", "l", "e", "r">>, <<"C", "a", "l", "l", "e", "d", " ", "N", "u", "m", "b", "e", "r">>, <<"D", "e", "s", "t", "i", "n", "a", "t", "i", "o", "n">>, <<"d", "e", "s", "t">>, <<"C", "u", "s", "t", "o", "m", "e", "r", " ", "N", "o">>,
      <<"D", "a", "t", "e">>, <<"T", "i", "m", "e">>, <<"C", "a", "l", "l", " ", "T", "i", "m", "e">>, <<"N", "o", "t", "e", "s">> }

\* Cell values: two phone numbers, a date text, a serial day number, a
\* site name and a number of seconds.
SampleCells ==
    { Str(<<"0", "3", "0", "0", "1", "2", "3", "4", "5", "6", "7">>), Str(<<"0", "3", "0", "0", "7", "6", "5", "4", "3", "2", "1">>), Str(<<"2", "0", "2", "4", "-", "0", "1", "-", "1", "5">>), Num(45000),
      Str(<<"T", "o", "w", "e", "r", " ", "A">>), Num(60) }

\* Columns for detectColumnType: a header left to pattern inference with
\* one or two sample values, the first possibly empty.
DetectInputs ==
    { [name |-> h, values |-> <<v>>] : h \in InferredHeaders, v \in SampleCells }
        \cup { [name |-> h, values |-> <<v, w>>] :
                   h \in InferredHeaders, v \in SampleCells \cup {Undef},
                   w \in SampleCells }

\* Sheets for normalizeColumnNames: one row of two columns, and a first
\* row of one column followed by a row that has one more column in front.
NormalizeInputs ==
    LET headers == ExactHeaders \cup InferredHeaders
        pairs == { hh \in headers \X headers : hh[1] # hh[2] }
    IN  { << <<Cell(hh[1], v), Cell(hh[2], w)>> >> :
              hh \in pairs, v \in SampleCells, w \in SampleCells }
        \cup { << <<Cell(hh[1], v)>>, <<Cell(hh[2], w), Cell(hh[1], v)>> >> :
                   hh \in pairs, v \in SampleCells, w \in SampleCells }

(***************************************************************************)
(* Specifications.                                                         *)
(***************************************************************************)
\* Up to MaxUploads concurrent uploads of different base files.
Init == \E n \in 1..MaxUploads : \E files \in BaseChoices(n) : InitWith(files)
Spec == Init /\ [][Next]_vars

\* One upload of a file for the parser.
InitParse == \E f \in ParseFiles : InitWith(<<f>>)
SpecParse == InitParse /\ [][Next]_vars

\* One upload of a file for the rankings.
InitRank == \E f \in RankFiles : InitWith(<<f>>)
SpecRank == InitRank /\ [][Next]_vars

\* One upload, or two concurrent uploads that share numbers, and the
\* number analysis.
InitQuery ==
    \/ \E f \in QueryFiles : InitWith(<<f>>)
    \/ InitWith(SharedFiles)
\* The uploads together with the number analysis of the numbers asked for.
NextQuery ==
    \/ Next
    \/ \E number \in QueryNumbers : GetNumberAnalysis(number)
SpecQuery == InitQuery /\ [][NextQuery]_vars

\* A direct call of analyzeMovementPatterns.
ApplyMovementPatterns ==
    Return("analyzeMovementPatterns", analyzeMovementPatterns(trial.arg))

InitMobility == \E records \in MobilityInputs :
                    InitTrial("analyzeMovementPatterns", records)
NextMobility == ApplyMovementPatterns
SpecMobility == InitMobility /\ [][NextMobility]_vars

\* A direct call of formatDuration.
ApplyFormatDuration == Return("formatDuration", formatDuration(trial.arg))

InitDuration == \E seconds \in DurationInputs : InitTrial("formatDuration", seconds)
NextDuration == ApplyFormatDuration
SpecDuration == InitDuration /\ [][NextDuration]_vars

\* A direct call of detectColumnType.
ApplyDetectColumnType ==
    Return("detectColumnType", detectColumnType(trial.arg.name, trial.arg.values))

InitDetect == \E column \in DetectInputs : InitTrial("detectColumnType", column)
NextDetect == ApplyDetectColumnType
SpecDetect == InitDetect /\ [][NextDetect]_vars

\* A direct call of normalizeColumnNames.
ApplyNormalizeColumnNames ==
    Return("normalizeColumnNames", normalizeColumnNames(trial.arg))

InitNormalize == \E data \in NormalizeInputs : InitTrial("normalizeColumnNames", data)
NextNormalize == ApplyNormalizeColumnNames
SpecNormalize == InitNormalize /\ [][NextNormalize]_vars

\* A direct call of analyzeDetailedLocationTimeline.
ApplyDetailedLocationTimeline ==
    Return("analyzeDetailedLocationTimeline",
           analyzeDetailedLocationTimeline(trial.arg))

InitTimeline == \E records \in TimelineInputs :
                    InitTrial("analyzeDetailedLocationTimeline", records)
NextTimeline == ApplyDetailedLocationTimeline
SpecTimeline == InitTimeline /\ [][NextTimeline]_vars

\* A direct call of analyzeIMEIChanges.
ApplyIMEIChanges == Return("analyzeIMEIChanges", analyzeIMEIChanges(trial.arg))

InitDevices == \E records \in DeviceInputs : InitTrial("analyzeIMEIChanges", records)
NextDevices == ApplyIMEIChanges
SpecDevices == InitDevices /\ [][NextDevices]_vars

\* The upload of one sheet of rows with sites and handsets.
InitHandsets == \E f \in HandsetFiles : InitWith(<<f>>)
SpecHandsets == InitHandsets /\ [][Next]_vars

(***************************************************************************)
(* Properties.                                                             *)
(***************************************************************************)
\* The parser has run on the sheet of request r.
Parsed(r) == inbox[r].kind = "sheet" /\ req[r].pc \notin {"idle", "created"}

\* The records parseExcelToCDR returned to request r.
Emitted(r) == req[r].cdrRecords

\* The A-Party value of a row, as text, trimmed.
CallerText(row) == Trim(JsString(OrElse(row["A-Party"], Str(<<>>))))

\* The normalized rows of a sheet with a non-empty caller, in sheet order:
\* the i-th emitted record comes from the i-th of them.
Survivors(r) == SelectSeq(req[r].data, LAMBDA row : CallerText(row) # <<>>)

\* The pairs (request, index) of emitted records with a source row.
EmittedAt(r, i) == Parsed(r) /\ i \in 1..Len(Emitted(r)) /\ i <= Len(Survivors(r))

\* The call-type text of a row, lower-cased and trimmed.
CallTypeText(row) == Trim(ToLowerCase(JsString(row["Call Type"])))

\* The records stored for an upload id.
StoredRecords(id) == SelectSeq(cdrRecords, LAMBDA rec : rec.uploadId = id)

\* The positions of the stored analysis entries, and the entry at one.
StoredEntries ==
    UNION { { <<id, k>> : k \in 1..Len(analysisResults[id]) } :
            id \in DOMAIN analysisResults }

Entry(at) == analysisResults[at[1]][at[2]]

\* A ranking list is sorted by value, descending, and ranked by position.
RankingOrdered(list) ==
    /\ \A i, j \in 1..Len(list) : i < j => list[i].value >= list[j].value
    /\ \A i \in 1..Len(list) : list[i].rank = i

\* C1: parseExcelToCDR emits a record for a row if and only if the row's
\* A-Party value is non-empty after trimming: no emitted record has an
\* empty callerNumber, and every row with a non-empty caller number yields
\* a record, whatever its other cells hold.
C1_DropRule ==
    \A r \in Requests :
        Parsed(r) =>
            /\ \A i \in 1..Len(Emitted(r)) : Emitted(r)[i].callerNumber # <<>>
            /\ Len(Emitted(r)) = Len(Survivors(r))
            /\ \A i \in 1..Len(Emitted(r)) :
                   Emitted(r)[i].callerNumber = CallerText(Survivors(r)[i])

\* C2: the call-type texts "SMS Outgoing", "Incoming SMS", "MT", "MO",
\* "Voice" and "XYZ", in any case and with surrounding blanks, are
\* classified sms_sent, sms_received, call_incoming, call_outgoing,
\* call_outgoing and call_outgoing.
C2_Classification ==
    \A r \in Requests : \A i \in 1..MaxRows + 1 :
        (EmittedAt(r, i) /\ Survivors(r)[i]["Call Type"].t = "str") =>
            LET text == CallTypeText(Survivors(r)[i])
                callType == Emitted(r)[i].callType
            IN  /\ text = <<"s", "m", "s", " ", "o", "u", "t", "g", "o", "i", "n", "g">> => callType = SMS_SENT
                /\ text = <<"i", "n", "c", "o", "m", "i", "n", "g", " ", "s", "m", "s">> => callType = SMS_RECEIVED
                /\ text = <<"m", "t">> => callType = CALL_INCOMING
                /\ text = <<"m", "o">> => callType = CALL_OUTGOING
                /\ text = <<"v", "o", "i", "c", "e">> => callType = CALL_OUTGOING
                /\ text = <<"x", "y", "z">> => callType = CALL_OUTGOING

\* C2 witness: a record parsed from the cell " sms outgoing " is sms_sent
\* and one parsed from "MT" is call_incoming.
C2_Witness ==
    \E r \in Requests :
        /\ EmittedAt(r, 1)
        /\ Survivors(r)[1]["Call Type"] = Str(<<" ", "s", "m", "s", " ", "o", "u", "t", "g", "o", "i", "n", "g", " ">>)
        /\ Emitted(r)[1].callType = SMS_SENT

\* C3: a SiteLocation with fewer than three '|'-separated segments, in a
\* row without Latitude and Longitude, gives location = the trimmed value
\* and latitude = longitude = null; "name|lat|lng" with numeric lat and lng
\* gives location = name and those coordinates.
C3_LocationSplit ==
    \A r \in Requests : \A i \in 1..MaxRows + 1 :
        (EmittedAt(r, i) /\ Survivors(r)[i]["SiteLocation"].t = "str"
                         /\ ~Falsy(Survivors(r)[i]["SiteLocation"])) =>
            LET row == Survivors(r)[i]
                rec == Emitted(r)[i]
                parts == SplitPipe(row["SiteLocation"].s)
            IN  /\ (/\ Len(parts) < 3
                    /\ row["Latitude"] = Undef /\ row["Longitude"] = Undef) =>
                       /\ rec.location = Trim(row["SiteLocation"].s)
                       /\ rec.latitude = Null
                       /\ rec.longitude = Null
                /\ row["SiteLocation"].s = <<"T", "o", "w", "e", "r", " ", "A", "|", "2", "4", ".", "8", "6", "|", "6", "7", ".", "0", "1">> =>
                       /\ rec.location = <<"T", "o", "w", "e", "r", " ", "A">>
                       /\ rec.latitude = Num(2486)
                       /\ rec.longitude = Num(6701)

RankingTypes ==
    { "topOutgoingCalls", "topIncomingCalls", "topOutgoingSMS", "topIncomingSMS",
      "topCallNumbers", "topTalkTimeNumbers", "topSmsSentNumbers",
      "topSmsReceivedNumbers" }

\* C4: every stored ranking of analyzeOutgoingCalls, analyzeIncomingCalls,
\* analyzeOutgoingSMS, analyzeIncomingSMS and analyzeTopNumbers is sorted
\* by value, descending, and the entry at position i (from 1) has rank i.
C4_RankingOrder ==
    \A at \in StoredEntries :
        Entry(at).analysisType \in RankingTypes => RankingOrdered(Entry(at).results)

\* C4 witness: a stored outgoing-call ranking of two numbers with different
\* counts whose leader was met after the other number in the records.
C4_Witness ==
    \E at \in StoredEntries : LET e == Entry(at) IN
        /\ e.analysisType = "topOutgoingCalls"
        /\ Len(e.results) = 2
        /\ e.results[1].value > e.results[2].value
        /\ LET out == SelectSeq(StoredRecords(e.uploadId),
                          LAMBDA rec : rec.callType = CALL_OUTGOING
                                       /\ rec.calledNumber # <<>>)
           IN  out[1].calledNumber = e.results[2].number

\* C5: the stored talk-time leaderboards topOutgoingTalkTime and
\* topIncomingTalkTime are sorted by value, descending, and the entry at
\* position i (from 1) has rank i.
C5_TalkTimeOrder ==
    \A at \in StoredEntries : LET e == Entry(at) IN
        e.analysisType \in {"topOutgoingTalkTime", "topIncomingTalkTime"} =>
            RankingOrdered(e.results)

OutgoingCount(id, n) ==
    Len(SelectSeq(StoredRecords(id),
            LAMBDA rec : rec.callType = CALL_OUTGOING /\ rec.calledNumber = n))

\* C6: in the stored outgoing-call ranking of an upload, the value of each
\* listed number is the number of the upload's call_outgoing records with
\* that calledNumber, it is at least 1, no number is listed twice, and every
\* non-empty calledNumber of a call_outgoing record is listed.
C6_OutgoingCounts ==
    \A at \in StoredEntries : LET e == Entry(at) IN
        e.analysisType = "topOutgoingCalls" =>
            /\ \A k \in 1..Len(e.results) :
                   /\ e.results[k].number # <<>>
                   /\ e.results[k].value = OutgoingCount(e.uploadId, e.results[k].number)
                   /\ e.results[k].value >= 1
            /\ \A k, l \in 1..Len(e.results) :
                   e.results[k].number = e.results[l].number => k = l
            /\ \A i \in 1..Len(StoredRecords(e.uploadId)) :
                   LET rec == StoredRecords(e.uploadId)[i]
                   IN  (rec.callType = CALL_OUTGOING /\ rec.calledNumber # <<>>) =>
                           \E k \in 1..Len(e.results) :
                               e.results[k].number = rec.calledNumber

\* C6 witness: a sheet of two "outgoing" rows and one "Incoming" row that
\* share a called number; the number is listed with count 2 at rank 1.
C6_Witness ==
    \E r \in Requests : \E at \in StoredEntries : LET e == Entry(at) IN
        /\ e.uploadId = req[r].uploadId
        /\ e.analysisType = "topOutgoingCalls"
        /\ inbox[r].kind = "sheet" /\ Len(inbox[r].rows) = 3
        /\ Len(StoredRecords(e.uploadId)) = 3
        /\ \A i \in 1..3 : inbox[r].rows[i]["B-Party"] = Str(<<"0", "4", "0", "0">>)
        /\ Cardinality({i \in 1..3 : inbox[r].rows[i]["Call Type"] = Str(<<"o", "u", "t", "g", "o", "i", "n", "g">>)}) = 2
        /\ Cardinality({i \in 1..3 : inbox[r].rows[i]["Call Type"] = Str(<<"I", "n", "c", "o", "m", "i", "n", "g">>)}) = 1
        /\ Len(e.results) = 1
        /\ e.results[1].number = <<"0", "4", "0", "0">>
        /\ e.results[1].value = 2
        /\ e.results[1].rank = 1

C8_TimestampValid ==
    \A r \in Requests : \A i \in 1..Len(Emitted(r)) :
        Emitted(r)[i].timestamp.t = "num"

\* C8 witness: a record parsed from a row whose Date And Time is a serial
\* number outside the range of Date, and whose Date and Time do not parse.
C8_Witness ==
    \E r \in Requests :
        /\ EmittedAt(r, 1)
        /\ Survivors(r)[1]["Date And Time"] = Num(HugeSerial)
        /\ Survivors(r)[1]["Date"] = Str(<<"g", "a", "r", "b", "a", "g", "e">>)
        /\ Survivors(r)[1]["Time"] = Str(<<"g", "a", "r", "b", "a", "g", "e">>)
        /\ Emitted(r)[1].timestamp.t = "num"

\* C9: every emitted record has an integer duration >= 0, which is 0 when
\* the row has no Duration cell.
C9_DurationNonNegative ==
    \A r \in Requests : \A i \in 1..MaxRows + 1 :
        EmittedAt(r, i) =>
            /\ Emitted(r)[i].duration.t = "num"
            /\ Emitted(r)[i].duration.n >= 0
            /\ Survivors(r)[i]["Duration"] = Undef => Emitted(r)[i].duration = Num(0)

NoCaller(data) ==
    \A i \in 1..Len(data) : ~DateTimeThrows(data[i]) /\ CallerText(data[i]) = <<>>

ZeroRecords(file) == file.kind = "sheet" /\ NoCaller(NormalizedRows(file.rows))

\* C10: when an upload has ended and its sheet parses to zero records, its
\* file-upload entry is "failed", the answer is 400, and neither records
\* nor analysis results are stored for its upload id.
C10_ZeroRecordsFailed ==
    \A r \in Requests :
        (req[r].pc = "done" /\ ZeroRecords(inbox[r])) =>
            /\ req[r].status = 400
            /\ fileUploads[req[r].uploadId].processingStatus = "failed"
            /\ StoredRecords(req[r].uploadId) = <<>>
            /\ analysisResults[req[r].uploadId] = <<>>

\* C10 witness: an upload of a sheet without caller numbers has ended
\* while another upload has stored its records and results.
C10_Witness ==
    \E r, q \in Requests :
        /\ req[r].pc = "done" /\ ZeroRecords(inbox[r]) /\ Len(inbox[r].rows) > 0
        /\ fileUploads[req[r].uploadId].processingStatus = "failed"
        /\ req[q].pc = "done" /\ req[q].status = 200
        /\ StoredRecords(req[q].uploadId) # <<>>

\* C11: every upload request that has created a file-upload entry leaves
\* the entry "completed" or "failed" when it has finished, and when it has
\* not answered 200 no records are stored under its upload id.
C11_UploadSettled ==
    \A r \in Requests :
        (req[r].pc = "done" /\ req[r].uploadId # 0) =>
            /\ fileUploads[req[r].uploadId].processingStatus \in {"completed", "failed"}
            /\ req[r].status # 200 => StoredRecords(req[r].uploadId) = <<>>

\* C12: the number analysis never crosses batches: once a profile has been
\* served for a number, a later answer for the same number is the same
\* profile, whatever records other uploads have stored in between (the
\* records of an upload are stored in one step and never change).
C12_ProfileOfOneUpload ==
    [][(served.status = 200 /\ served.body # Null
            /\ served'.number = served.number) =>
           served'.body = served.body]_vars

\* C14: in every entry of the output of analyzeMovementPatterns,
\* mobilityLevel is "high" exactly when totalChanges > 15, "medium" exactly
\* when 8 < totalChanges <= 15 and "low" otherwise, and totalChanges is the
\* length of the entry's changes.
C14_MobilityThresholds ==
    (trial.fn = "analyzeMovementPatterns" /\ trial.done) =>
        \A i \in 1..Len(trial.out) :
            LET e == trial.out[i]
            IN  /\ e.totalChanges = Len(e.changes)
                /\ e.mobilityLevel = "high" <=> e.totalChanges > 15
                /\ e.mobilityLevel = "medium" <=>
                       (e.totalChanges > 8 /\ e.totalChanges <= 15)
                /\ e.mobilityLevel = "low" <=> e.totalChanges <= 8

\* C14 witness: an output with an entry of 16 changes that is high.
C14_Witness ==
    /\ trial.fn = "analyzeMovementPatterns" /\ trial.done
    /\ \E i \in 1..Len(trial.out) :
           /\ trial.out[i].totalChanges = 16
           /\ trial.out[i].mobilityLevel = "high"
    /\ \E i \in 1..Len(trial.out) :
           /\ trial.out[i].totalChanges = 2
           /\ trial.out[i].mobilityLevel = "low"

\* The answer `answer` to a number analysis agrees with the stored records:
\* the positions, dates and per-date totals of the target are counted here
\* from the store, without the analyzer.
ProfileAgrees(answer, stored) ==
    LET hits == { i \in 1..Len(stored) :
                      \/ stored[i].callerNumber = answer.number
                      \/ stored[i].calledNumber = answer.number }
        dates == { ISODate(stored[i].timestamp) : i \in hits }
        total(d) == Cardinality({ i \in hits : ISODate(stored[i].timestamp) = d })
    IN  IF hits = {} THEN answer.body = Null
        ELSE /\ answer.body # Null
             /\ answer.body.totalDays = Cardinality(dates)
             /\ \E d \in dates :
                    /\ answer.body.mostActiveDay.date = LongDate(d)
                    /\ answer.body.mostActiveDay.total = total(d)
                    /\ \A e \in dates : total(e) <= total(d)
             /\ \E d \in dates :
                    /\ answer.body.leastActiveDay.date = LongDate(d)
                    /\ answer.body.leastActiveDay.total = total(d)
                    /\ \A e \in dates : total(e) >= total(d)

\* C15: the number analysis answers null when no stored record has the
\* target as caller or called number; otherwise totalDays is the number of
\* distinct UTC dates of the target's records, mostActiveDay is a date whose
\* total is maximal and leastActiveDay a date whose total is minimal.
C15_NumberProfile ==
    [][(\E number \in QueryNumbers : GetNumberAnalysis(number)) =>
           ProfileAgrees(served', cdrRecords)]_vars

\* C15 witness: the analysis of 0400 over days with 2, 5 and 1 calls gives
\* three days, the 5-call day as most active and the 1-call day as least.
C15_Witness ==
    /\ served.status = 200
    /\ served.number = <<"0", "4", "0", "0">>
    /\ served.body # Null
    /\ served.body.totalDays = 3
    /\ served.body.mostActiveDay.total = 5
    /\ served.body.mostActiveDay.date = <<"W", "e", "d", "n", "e", "s", "d", "a", "y", ",", " ", "M", "a", "r", "c", "h", " ", "1", "5">>
    /\ served.body.leastActiveDay.total = 1
    /\ served.body.leastActiveDay.date = <<"T", "h", "u", "r", "s", "d", "a", "y", ",", " ", "M", "a", "r", "c", "h", " ", "1", "6">>

\* The text the duration format prescribes for s seconds.
DurationText(s) ==
    IF s >= 3600
    THEN NatToString(s \div 3600) \o <<"h", " ">> \o NatToString((s % 3600) \div 60) \o <<"m">>
    ELSE NatToString(s \div 60) \o <<"m">>

\* C16: for every integer s >= 0, formatDuration(s) is "{floor(s/3600)}h
\* {floor((s mod 3600)/60)}m" when s >= 3600 and "{floor(s/60)}m" otherwise;
\* 0 gives "0m", 65 gives "1m" and 3665 gives "1h 1m".
C16_FormatDuration ==
    (trial.fn = "formatDuration" /\ trial.done /\ trial.arg >= 0) =>
        /\ trial.out = DurationText(trial.arg)
        /\ trial.arg = 0 => trial.out = <<"0", "m">>
        /\ trial.arg = 65 => trial.out = <<"1", "m">>
        /\ trial.arg = 3665 => trial.out = <<"1", "h", " ", "1", "m">>

\* C16 witness: formatDuration has returned "1h 1m" for 3665 seconds.
C16_Witness ==
    /\ trial.fn = "formatDuration" /\ trial.done
    /\ trial.arg = 3665
    /\ trial.out = <<"1", "h", " ", "1", "m">>

\* C17: a column of the first row that the exact-name table maps to the
\* canonical field C keeps its value under C in every row that
\* normalizeColumnNames returns: no column mapped to C by pattern inference
\* and no column passed through under the name C replaces it (rows where
\* the table maps a second column to C are left aside).
C17_ExactNeverOverridden ==
    (trial.fn = "normalizeColumnNames" /\ trial.done) =>
        \A i \in 1..Len(trial.arg) : \A k \in 1..Len(trial.arg[i]) :
            LET key == trial.arg[i][k].key
                exact(other) == /\ HasKey(trial.arg[1], other)
                                /\ ExactType(other) = ExactType(key)
            IN  (/\ HasKey(trial.arg[1], key) /\ ExactType(key) # NoType
                 /\ \A j \in 1..Len(trial.arg[i]) :
                        j # k => ~exact(trial.arg[i][j].key)) =>
                    Get(trial.out[i], ExactType(key)) = trial.arg[i][k].value

\* C18: a header that is a known variant of the exact-name table is
\* rewritten to its canonical name in every row it occurs in, also when the
\* first row has no cell of that column.
C18_VariantRewrittenEverywhere ==
    (trial.fn = "normalizeColumnNames" /\ trial.done) =>
        \A i \in 1..Len(trial.arg) : \A k \in 1..Len(trial.arg[i]) :
            LET key == trial.arg[i][k].key
            IN  (ExactType(key) # NoType /\ ExactType(key) # key) =>
                    /\ ~HasKey(trial.out[i], key)
                    /\ HasKey(trial.out[i], ExactType(key))

\* The hint words of the B-Party and of the A-Party headers.
BPartyHints == { <<"c", "a", "l", "l", "e", "d">>, <<"d", "e", "s", "t">>, <<"t", "o">>, <<"c", "u", "s", "t", "o", "m", "e", "r">>, <<"m", "s", "i", "s", "d", "n">>, <<"s", "u", "b", "s", "c", "r", "i", "b", "e", "r">> }
APartyHints == { <<"c", "a", "l", "l", "e", "r">>, <<"s", "o", "u", "r", "c", "e">>, <<"f", "r", "o", "m">> }

\* Some sample value is a phone number: 8 to 20 digits, signs, spaces and
\* parentheses.
PhoneLike(values) ==
    \E i \in 1..Len(values) :
        /\ values[i].t = "str"
        /\ Len(values[i].s) \in 8..20
        /\ \A k \in 1..Len(values[i].s) :
               values[i].s[k] \in {"0", "1", "2", "3", "4", "5", "6", "7", "8", "9",
                                   "+", "-", " ", "(", ")"}

\* C19: pattern inference maps a column with phone-like sample values whose
\* header contains a B-Party hint word and none of "caller", "source",
\* "from" to B-Party.
C19_BPartyHint ==
    (trial.fn = "detectColumnType" /\ trial.done) =>
        LET name == ToLowerCase(trial.arg.name)
        IN  (/\ PhoneLike(trial.arg.values)
             /\ \E hint \in BPartyHints : Includes(name, hint)
             /\ \A hint \in APartyHints : ~Includes(name, hint)) =>
                trial.out = B_PARTY

\* Some sample value is a serial day number between 40000 and 50000 or a
\* text that parses as a date.
DateLike(values) ==
    \E i \in 1..Len(values) :
        \/ values[i].t = "num" /\ values[i].n > 40000 /\ values[i].n < 50000
        \/ values[i].t = "str" /\ values[i].s # <<>> /\ ~IsNaN(DateParse(values[i].s))

\* C20: pattern inference maps every column whose header contains "date" or
\* "time" and whose sample values are date-like to Date And Time, whatever
\* other patterns the values match.
C20_DateHeader ==
    (trial.fn = "detectColumnType" /\ trial.done) =>
        LET name == ToLowerCase(trial.arg.name)
        IN  (/\ DateLike(trial.arg.values)
             /\ Includes(name, <<"d", "a", "t", "e">>) \/ Includes(name, <<"t", "i", "m", "e">>)) =>
                trial.out = DATE_AND_TIME

\* The words of a call-type text that decide its direction before the
\* voice patterns are looked at.
DirectionWords ==
    {<<"s", "m", "s">>, <<"m", "e", "s", "s", "a", "g", "e">>, <<"i", "n", "c", "o", "m", "i", "n", "g">>, <<"o", "u", "t", "g", "o", "i", "n", "g">>, <<"s", "e", "n", "t">>, <<"r", "e", "c", "e", "i", "v", "e", "d">>}

\* C21: a call-type text that mentions none of sms, message, incoming,
\* outgoing, sent, received is classified call_outgoing when it contains
\* "originated" and call_incoming when it contains "terminated".
C21_OriginatedTerminated ==
    \A r \in Requests : \A i \in 1..MaxRows + 1 :
        (EmittedAt(r, i) /\ Survivors(r)[i]["Call Type"].t = "str"
            /\ \A w \in DirectionWords : ~Includes(CallTypeText(Survivors(r)[i]), w)) =>
            LET text == CallTypeText(Survivors(r)[i])
                callType == Emitted(r)[i].callType
            IN  /\ Includes(text, <<"o", "r", "i", "g", "i", "n", "a", "t", "e", "d">>) => callType = CALL_OUTGOING
                /\ Includes(text, <<"t", "e", "r", "m", "i", "n", "a", "t", "e", "d">>) => callType = CALL_INCOMING

\* The Date And Time text of a row fails the direct parse and every rewrite.
DateTimeTextFails(row) ==
    /\ row["Date And Time"].t = "str" /\ row["Date And Time"].s # <<>>
    /\ IsNaN(DateParse(row["Date And Time"].s))
    /\ \A k \in 1..4 : IsNaN(DateParse(dateFormats(row["Date And Time"].s)[k]))

\* The instant the Date and Time texts of a row give when joined by a blank.
DatePlusTime(row) ==
    DateParse(BeforeT(row["Date"].s) \o <<" ">> \o row["Time"].s)

\* C22: when the Date And Time text of a row fails the direct parse and
\* every rewrite, and the row has Date and Time texts that parse together,
\* the timestamp of the record is the instant parsed from Date + Time.
C22_DateTimeFallsBack ==
    \A r \in Requests : \A i \in 1..MaxRows + 1 :
        (EmittedAt(r, i) /\ DateTimeTextFails(Survivors(r)[i])
            /\ Survivors(r)[i]["Date"].t = "str" /\ Survivors(r)[i]["Time"].t = "str"
            /\ ~IsNaN(DatePlusTime(Survivors(r)[i]))) =>
            Emitted(r)[i].timestamp = DatePlusTime(Survivors(r)[i])

\* C23: a Date And Time text whose direct parse is valid and whose year is
\* 2010 or later is the timestamp of the record, unchanged.
C23_DirectParseFrom2010 ==
    \A r \in Requests : \A i \in 1..MaxRows + 1 :
        (EmittedAt(r, i) /\ Survivors(r)[i]["Date And Time"].t = "str"
            /\ ~IsNaN(DateParse(Survivors(r)[i]["Date And Time"].s))
            /\ GetFullYear(DateParse(Survivors(r)[i]["Date And Time"].s)) >= 2010) =>
            Emitted(r)[i].timestamp = DateParse(Survivors(r)[i]["Date And Time"].s)

\* C24: a numeric Date And Time value d within the range of Date gives the
\* timestamp (d - 25569) days after the epoch moved five hours back,
\* whatever the Date and Time cells of the row hold: five hours after the
\* timestamp it is midnight of day d - 25569.
C24_SerialDateTime ==
    \A r \in Requests : \A i \in 1..MaxRows + 1 :
        (EmittedAt(r, i) /\ Survivors(r)[i]["Date And Time"].t = "num"
            /\ Survivors(r)[i]["Date And Time"].n - 25569 <= MaxDateDays) =>
            /\ Emitted(r)[i].timestamp.t = "num"
            /\ (Emitted(r)[i].timestamp.n + 18000) % 86400 = 0
            /\ (Emitted(r)[i].timestamp.n + 18000) \div 86400 =
                   Survivors(r)[i]["Date And Time"].n - 25569

\* The place of record k of a list in chronological order: after the
\* records that are earlier, and after the records of the same instant
\* that precede it in the list.
ChronologicalRank(recs, k) ==
    Cardinality({ j \in 1..Len(recs) :
                    \/ recs[j].timestamp.n < recs[k].timestamp.n
                    \/ recs[j].timestamp.n = recs[k].timestamp.n /\ j < k }) + 1

Chronological(recs) ==
    [p \in 1..Len(recs) |->
        recs[CHOOSE k \in 1..Len(recs) : ChronologicalRank(recs, k) = p]]

\* The records of a subscriber with a location, in chronological order.
Stays(records, subscriber) ==
    Chronological(SelectSeq(records,
        LAMBDA rec : rec.callerNumber = subscriber /\ rec.location # <<>>))

\* The places in the stays of a subscriber where the location differs from
\* that of the record before.
Moves(records, subscriber) ==
    { p \in 2..Len(Stays(records, subscriber)) :
        Stays(records, subscriber)[p].location
            # Stays(records, subscriber)[p - 1].location }

\* A change event is the event of the move at place p of the stays.
EventOfMove(event, subscriber, stays, p) ==
    /\ event.subscriber = subscriber
    /\ event.fromLocation = stays[p - 1].location
    /\ event.toLocation = stays[p].location
    /\ event.changeTime = ISODateTime(stays[p].timestamp)

Callers(records) == { records[k].callerNumber : k \in 1..Len(records) }

\* C25: below the cap of 20, analyzeDetailedLocationTimeline returns
\* exactly one change event for each pair of adjacent records with
\* different locations in each subscriber's chronologically sorted records
\* with a location, with fromLocation, toLocation and changeTime those of
\* the pair, and the list is ordered by changeTime, latest first.
C25_TimelineChanges ==
    (trial.fn = "analyzeDetailedLocationTimeline" /\ trial.done) =>
        /\ \A i, j \in 1..Len(trial.out) :
               i < j => ChangeTimeOf(trial.out[i]) >= ChangeTimeOf(trial.out[j])
        /\ \A i \in 1..Len(trial.out) :
               \E subscriber \in Callers(trial.arg) :
                   \E p \in Moves(trial.arg, subscriber) :
                       EventOfMove(trial.out[i], subscriber,
                                   Stays(trial.arg, subscriber), p)
        /\ \A subscriber \in Callers(trial.arg) :
               \A p \in Moves(trial.arg, subscriber) :
                   Cardinality({ i \in 1..Len(trial.out) :
                       EventOfMove(trial.out[i], subscriber,
                                   Stays(trial.arg, subscriber), p) })
                   = Cardinality({ q \in Moves(trial.arg, subscriber) :
                       /\ Stays(trial.arg, subscriber)[q].location
                              = Stays(trial.arg, subscriber)[p].location
                       /\ Stays(trial.arg, subscriber)[q - 1].location
                              = Stays(trial.arg, subscriber)[p - 1].location
                       /\ Stays(trial.arg, subscriber)[q].timestamp
                              = Stays(trial.arg, subscriber)[p].timestamp })

\* C25 witness: an output of three changes of 0301, given in list order
\* against time, the latest first.
C25_Witness ==
    /\ trial.fn = "analyzeDetailedLocationTimeline" /\ trial.done
    /\ Len(trial.arg) = 4
    /\ \A i \in 1..3 : trial.arg[i].timestamp.n > trial.arg[i + 1].timestamp.n
    /\ Len(trial.out) = 3
    /\ trial.out[1].changeTime = ISODateTime(trial.arg[1].timestamp)
    /\ trial.out[1].toLocation = trial.arg[1].location
    /\ trial.out[1].fromLocation = trial.arg[2].location

\* The last place of the stay that starts at place p: the place before the
\* subscriber's next record at a different location.
StayEnd(stays, p) ==
    IF \E q \in (p + 1)..Len(stays) : stays[q].location # stays[p].location
    THEN (CHOOSE q \in (p + 1)..Len(stays) :
              /\ stays[q].location # stays[p].location
              /\ \A j \in (p + 1)..(q - 1) : stays[j].location = stays[p].location) - 1
    ELSE Len(stays)

StayRecords(stays, p) == SubSeq(stays, p, StayEnd(stays, p))

CountOfType(recs, callType) ==
    Cardinality({ k \in 1..Len(recs) : recs[k].callType = callType })

\* An activity summary covers exactly the records of a stay.
SummaryCovers(activity, stay) ==
    /\ Len(activity.detailedRecords) = Len(stay)
    /\ \A k \in 1..Len(stay) :
           k <= Len(activity.detailedRecords) =>
               /\ activity.detailedRecords[k].timestamp = ISODateTime(stay[k].timestamp)
               /\ activity.detailedRecords[k].callType = stay[k].callType
               /\ activity.detailedRecords[k].number = stay[k].calledNumber
    /\ activity.incomingCalls = CountOfType(stay, CALL_INCOMING)
    /\ activity.outgoingCalls = CountOfType(stay, CALL_OUTGOING)
    /\ activity.incomingSms = CountOfType(stay, SMS_RECEIVED)
    /\ activity.outgoingSms = CountOfType(stay, SMS_SENT)
    /\ activity.totalDuration = SumDuration(stay)
    /\ activity.uniqueContacts =
           Cardinality({ stay[k].calledNumber : k \in 1..Len(stay) } \ { <<>> })

\* C26: the activity summary of every change event covers exactly the
\* records of that stay: the subscriber's consecutive records at toLocation
\* from the change record up to the record before the next one at a
\* different location, and no record of a later return to the location.
C26_StayActivity ==
    (trial.fn = "analyzeDetailedLocationTimeline" /\ trial.done) =>
        \A i \in 1..Len(trial.out) :
            \E subscriber \in Callers(trial.arg) :
                \E p \in Moves(trial.arg, subscriber) :
                    /\ EventOfMove(trial.out[i], subscriber,
                                   Stays(trial.arg, subscriber), p)
                    /\ SummaryCovers(trial.out[i].activityInNewLocation,
                           StayRecords(Stays(trial.arg, subscriber), p))

\* The records of a number that carry an IMEI, and its distinct IMEIs.
Carrying(records, number) ==
    SelectSeq(records, LAMBDA rec : rec.imei # <<>> /\ TargetNumber(rec) = number)

IMEIsOf(records, number) ==
    { Carrying(records, number)[k].imei : k \in 1..Len(Carrying(records, number)) }

\* The earliest timestamp among the records of a number with an IMEI.
FirstSeen(records, number, imei) ==
    CHOOSE t \in { Carrying(records, number)[k].timestamp.n :
                     k \in { j \in 1..Len(Carrying(records, number)) :
                               Carrying(records, number)[j].imei = imei } } :
        \A k \in 1..Len(Carrying(records, number)) :
            Carrying(records, number)[k].imei = imei =>
                t <= Carrying(records, number)[k].timestamp.n

\* The changes of an entry follow the IMEIs of its number in the order of
\* their first-seen times.
InFirstSeenOrder(entry, records) ==
    /\ entry.totalChanges = Cardinality(IMEIsOf(records, entry.number)) - 1
    /\ Len(entry.changes) = entry.totalChanges
    /\ { entry.changes[1].oldIMEI }
           \cup { entry.changes[i].newIMEI : i \in 1..Len(entry.changes) }
           = IMEIsOf(records, entry.number)
    /\ \A i \in 1..Len(entry.changes) :
           /\ entry.changes[i].timestamp =
                  ISODateTime(Num(FirstSeen(records, entry.number,
                                            entry.changes[i].newIMEI)))
           /\ FirstSeen(records, entry.number, entry.changes[i].oldIMEI)
                  <= FirstSeen(records, entry.number, entry.changes[i].newIMEI)
           /\ i > 1 => entry.changes[i].oldIMEI = entry.changes[i - 1].newIMEI

\* C28: in every entry of analyzeIMEIChanges, whatever the order of the
\* records in the list, the IMEIs of the number are ordered by the earliest
\* timestamp among its records with the IMEI, each change carries that
\* earliest timestamp of its newIMEI and as oldIMEI the IMEI seen just
\* before, and totalChanges is the number of distinct IMEIs minus one.
C28_FirstSeenOrder ==
    (trial.fn = "analyzeIMEIChanges" /\ trial.done) =>
        \A i \in 1..Len(trial.out) : InFirstSeenOrder(trial.out[i], trial.arg)

\* The call records of a number (the called number, else the caller, as the
\* analyzer keys them) with a location, in chronological order.
LocatedCalls(records, number) ==
    Chronological(SelectSeq(records,
        LAMBDA rec : /\ rec.callType \in {CALL_OUTGOING, CALL_INCOMING}
                     /\ rec.location # <<>>
                     /\ TargetNumber(rec) = number))

\* The places in the located calls where the location differs from that of
\* the call before.
CallMoves(calls) == { p \in 2..Len(calls) : calls[p].location # calls[p - 1].location }

\* C27: for the records the parser stored for an upload, every number whose
\* call_outgoing and call_incoming records with a location, in
\* chronological order, change location at least once has an entry in the
\* stored movementPatterns, with one change per change of location.
C27_MovementCoverage ==
    \A at \in StoredEntries : LET e == Entry(at) IN
        e.analysisType = "movementPatterns" =>
            \A k \in 1..Len(StoredRecords(e.uploadId)) :
                LET number == TargetNumber(StoredRecords(e.uploadId)[k])
                    moves == CallMoves(LocatedCalls(StoredRecords(e.uploadId), number))
                IN  moves # {} =>
                        \E i \in 1..Len(e.results) :
                            /\ e.results[i].number = number
                            /\ Len(e.results[i].changes) = Cardinality(moves)

\* The records of a number that carry an IMEI and have one of the call
\* types.
OnIMEI(records, number, imei, callTypes) ==
    SelectSeq(records, LAMBDA rec : /\ TargetNumber(rec) = number
                                    /\ rec.imei = imei
                                    /\ rec.callType \in callTypes)

\* The counters of a change are those of the records of the number on the
\* new IMEI.
CountersOfNewIMEI(change, number, records) ==
    /\ change.callsAfter =
           Len(OnIMEI(records, number, change.newIMEI, {CALL_OUTGOING, CALL_INCOMING}))
    /\ change.durationAfter =
           SumDuration(OnIMEI(records, number, change.newIMEI,
                              {CALL_OUTGOING, CALL_INCOMING}))
    /\ change.smsAfter.sent = Len(OnIMEI(records, number, change.newIMEI, {SMS_SENT}))
    /\ change.smsAfter.received =
           Len(OnIMEI(records, number, change.newIMEI, {SMS_RECEIVED}))

\* C29: in every change of the stored imeiChanges of an upload, callsAfter
\* is the number of the call_outgoing and call_incoming records of the
\* number on the new IMEI, durationAfter the sum of their durations, and
\* smsAfter.sent and smsAfter.received the numbers of its sms_sent and
\* sms_received records on the new IMEI.
C29_CountersAfterChange ==
    \A at \in StoredEntries : LET e == Entry(at) IN
        e.analysisType = "imeiChanges" =>
            \A i \in 1..Len(e.results) :
                \A c \in 1..Len(e.results[i].changes) :
                    CountersOfNewIMEI(e.results[i].changes[c], e.results[i].number,
                                      StoredRecords(e.uploadId))

\* The number a record is counted under: the called number when it is not
\* empty, else the caller.
KeyedNumber(rec) == IF rec.calledNumber # <<>> THEN rec.calledNumber ELSE rec.callerNumber

\* The call types a combined list counts.
CountedTypes(analysisType) ==
    CASE analysisType = "topCallNumbers" -> {CALL_INCOMING, CALL_OUTGOING}
      [] analysisType = "topSmsSentNumbers" -> {SMS_RECEIVED}
      [] analysisType = "topSmsReceivedNumbers" -> {SMS_SENT}

KeyedCount(records, number, callTypes) ==
    Len(SelectSeq(records, LAMBDA rec : /\ KeyedNumber(rec) = number
                                        /\ rec.callType \in callTypes))

=============================================================================
